---- MODULE Spec2Model ----
(***************************************************************************)
(* Matrix pivot engine of src/src/visual.ts: Visual.buildModel (record     *)
(* ingestion, row forest, formula fixpoint, parent auto-aggregation,       *)
(* subtotals, grand total) together with the expression tokenizer/parser   *)
(* and the value coercions it uses.                                        *)
(*                                                                         *)
(* JavaScript values are tagged records [t, n, s]:                         *)
(*   t = "num"  a finite number n (the inputs of this model are integers)  *)
(*   t = "nan"  NaN            t = "inf"  +Infinity (n = 1) / -Infinity    *)
(*   t = "str"  the string s   t = "bool" true (n = 1) / false (n = 0)     *)
(*   t = "null" null           t = "undef" undefined                       *)
(***************************************************************************)
EXTENDS Integers, Sequences, FiniteSets, TLC

\* ---------------------------------------------------------------- bounds
MaxCellRecords == 3
MaxRecords == 2
MaxLayoutRows == 3
MaxForestRecords == 2
MaxColumnRecords == 3
MaxRules == 2
MaxEdits == 1
MaxConfigRecords == 1

\* ---------------------------------------------------------------- values
Num(k) == [t |-> "num", n |-> k, s |-> ""]
Str(x) == [t |-> "str", n |-> 0, s |-> x]
Bool(b) == [t |-> "bool", n |-> IF b THEN 1 ELSE 0, s |-> ""]
Null == [t |-> "null", n |-> 0, s |-> ""]
NaN == [t |-> "nan", n |-> 0, s |-> ""]
Inf(sign) == [t |-> "inf", n |-> sign, s |-> ""]
Undefined == [t |-> "undef", n |-> 0, s |-> ""]

\* A result outside the modelled number domain (a non-integer quotient, a
\* decimal literal): evaluating it stops the check instead of inventing a value.
Unmodelled == CHOOSE v \in {} : TRUE

isFinite(v) == v.t = "num"
\* v == null
isNullish(v) == v.t \in {"null", "undef"}

\* ---------------------------------------------------------------- strings
Ch(text, i) == SubSeq(text, i, i)

Digits == {"0", "1", "2", "3", "4", "5", "6", "7", "8", "9"}
Lower == {"a", "b", "c", "d", "e", "f", "g", "h", "i", "j", "k", "l", "m",
          "n", "o", "p", "q", "r", "s", "t", "u", "v", "w", "x", "y", "z"}
Upper == {"A", "B", "C", "D", "E", "F", "G", "H", "I", "J", "K", "L", "M",
          "N", "O", "P", "Q", "R", "S", "T", "U", "V", "W", "X", "Y", "Z"}
WhiteSpace == {" ", "\t", "\n", "\r"}

isDigit(c) == c \in Digits
isIdentStart(c) == c \in Lower \cup Upper \cup {"_"}
isIdentPart(c) == c \in Lower \cup Upper \cup Digits \cup {"_"}

DigitVal(c) ==
    CASE c = "0" -> 0 [] c = "1" -> 1 [] c = "2" -> 2 [] c = "3" -> 3
      [] c = "4" -> 4 [] c = "5" -> 5 [] c = "6" -> 6 [] c = "7" -> 7
      [] c = "8" -> 8 [] c = "9" -> 9

UpperOf(c) ==
    CASE c = "a" -> "A" [] c = "b" -> "B" [] c = "c" -> "C" [] c = "d" -> "D"
      [] c = "e" -> "E" [] c = "f" -> "F" [] c = "g" -> "G" [] c = "h" -> "H"
      [] c = "i" -> "I" [] c = "j" -> "J" [] c = "k" -> "K" [] c = "l" -> "L"
      [] c = "m" -> "M" [] c = "n" -> "N" [] c = "o" -> "O" [] c = "p" -> "P"
      [] c = "q" -> "Q" [] c = "r" -> "R" [] c = "s" -> "S" [] c = "t" -> "T"
      [] c = "u" -> "U" [] c = "v" -> "V" [] c = "w" -> "W" [] c = "x" -> "X"
      [] c = "y" -> "Y" [] c = "z" -> "Z" [] OTHER -> c

RECURSIVE toUpperCase(_)
toUpperCase(text) ==
    IF Len(text) = 0 THEN ""
    ELSE UpperOf(Ch(text, 1)) \o toUpperCase(SubSeq(text, 2, Len(text)))

RECURSIVE trimStart(_)
trimStart(text) ==
    IF Len(text) > 0 /\ Ch(text, 1) \in WhiteSpace
    THEN trimStart(SubSeq(text, 2, Len(text)))
    ELSE text

RECURSIVE trimEnd(_)
trimEnd(text) ==
    IF Len(text) > 0 /\ Ch(text, Len(text)) \in WhiteSpace
    THEN trimEnd(SubSeq(text, 1, Len(text) - 1))
    ELSE text

trim(text) == trimEnd(trimStart(text))

\* text.indexOf(c, from) on 1-based positions; 0 when c does not occur.
RECURSIVE indexOf(_, _, _)
indexOf(text, c, from) ==
    IF from > Len(text) THEN 0
    ELSE IF Ch(text, from) = c THEN from
    ELSE indexOf(text, c, from + 1)

RECURSIVE join(_, _)
join(parts, sep) ==
    IF Len(parts) = 0 THEN ""
    ELSE IF Len(parts) = 1 THEN parts[1]
    ELSE parts[1] \o sep \o join(Tail(parts), sep)

\* Value of a string of decimal digits.
RECURSIVE digitsValue(_, _)
digitsValue(text, acc) ==
    IF Len(text) = 0 THEN acc
    ELSE digitsValue(SubSeq(text, 2, Len(text)), 10 * acc + DigitVal(Ch(text, 1)))

allDigits(text) == \A i \in 1..Len(text) : isDigit(Ch(text, i))

\* parseFloat on the text of a number token (digits and dots).
parseFloat(text) ==
    IF allDigits(text) THEN Num(digitsValue(text, 0)) ELSE Unmodelled

\* Number(s) for a string s: surrounding white space is dropped, the empty
\* string is 0, an optionally signed digit string is its value, other text NaN.
NumberOfString(text) ==
    LET body == trim(text)
        signed == Len(body) > 0 /\ Ch(body, 1) \in {"+", "-"}
        digits == IF signed THEN SubSeq(body, 2, Len(body)) ELSE body
    IN  IF Len(body) = 0 THEN Num(0)
        ELSE IF Len(digits) > 0 /\ allDigits(digits)
             THEN Num(IF signed /\ Ch(body, 1) = "-"
                      THEN 0 - digitsValue(digits, 0)
                      ELSE digitsValue(digits, 0))
        ELSE IF \E i \in 1..Len(digits) :
                    ~isDigit(Ch(digits, i)) /\ Ch(digits, i) \in {".", "e", "E", "x", "X"}
             THEN IF \A i \in 1..Len(digits) : isIdentPart(Ch(digits, i)) /\ isIdentStart(Ch(digits, 1))
                  THEN NaN
                  ELSE Unmodelled
        ELSE NaN

toNumber(v) ==
    CASE v.t \in {"num", "nan", "inf"} -> v
      [] v.t = "bool" -> Num(v.n)
      [] v.t \in {"null", "undef"} -> NaN
      [] v.t = "str" -> NumberOfString(v.s)

toBool(v) ==
    CASE v.t = "bool" -> v.n = 1
      [] v.t = "num" -> v.n # 0
      [] v.t = "inf" -> TRUE
      [] v.t = "nan" -> FALSE
      [] v.t = "str" -> Len(v.s) > 0
      [] v.t \in {"null", "undef"} -> FALSE

\* ---------------------------------------------------------------- ExprTokenizer
Tok(type, value) == [type |-> type, value |-> value]

RECURSIVE skipWs(_, _)
skipWs(text, pos) ==
    IF pos <= Len(text) /\ Ch(text, pos) \in WhiteSpace
    THEN skipWs(text, pos + 1)
    ELSE pos

\* The quoted-string scan: [out, pos] after the closing quote or the end.
RECURSIVE scanString(_, _, _, _)
scanString(text, pos, quote, out) ==
    IF pos > Len(text) THEN [out |-> out, pos |-> pos]
    ELSE LET c == Ch(text, pos) IN
         IF c = quote THEN [out |-> out, pos |-> pos + 1]
         ELSE IF c = "\\" /\ pos + 1 <= Len(text)
              THEN scanString(text, pos + 2, quote, out \o Ch(text, pos + 1))
         ELSE scanString(text, pos + 1, quote, out \o c)

RECURSIVE scanNumber(_, _)
scanNumber(text, pos) ==
    IF pos <= Len(text) /\ (isDigit(Ch(text, pos)) \/ Ch(text, pos) = ".")
    THEN scanNumber(text, pos + 1)
    ELSE pos

RECURSIVE scanIdent(_, _)
scanIdent(text, pos) ==
    IF pos <= Len(text) /\ isIdentPart(Ch(text, pos))
    THEN scanIdent(text, pos + 1)
    ELSE pos

\* text[index + 1], "\0" past the end (pos is the 1-based current position).
peek(text, pos) == IF pos + 1 > Len(text) THEN "\\0" ELSE Ch(text, pos + 1)

ops2 == {">=", "<=", "==", "!=", "&&", "||"}
oneOps == {"+", "-", "*", "/", "^", ">", "<", "!"}

\* A "[": the reference runs to the next "]" or, without one, to the end.
refToken(text, pos, end) ==
    IF end = 0
    THEN [tok |-> Tok("ref", trim(SubSeq(text, pos + 1, Len(text)))),
          pos |-> Len(text) + 1]
    ELSE [tok |-> Tok("ref", trim(SubSeq(text, pos + 1, end - 1))), pos |-> end + 1]

stringToken(r) == [tok |-> Tok("string", r.out), pos |-> r.pos]

numberToken(text, pos, e) == [tok |-> Tok("number", SubSeq(text, pos, e - 1)), pos |-> e]

\* An identifier; AND, OR and NOT in any case are operators.
wordToken(raw, upper, e) ==
    IF upper \in {"AND", "OR", "NOT"}
    THEN [tok |-> Tok("op", upper), pos |-> e]
    ELSE [tok |-> Tok("ident", raw), pos |-> e]

identToken(raw, e) == wordToken(raw, toUpperCase(raw), e)

\* The token that starts at pos with the character ch; two is ch and the
\* character after it.
tokenAt(text, pos, ch, two) ==
    CASE ch = "," -> [tok |-> Tok("comma", ""), pos |-> pos + 1]
      [] ch = "(" -> [tok |-> Tok("lparen", ""), pos |-> pos + 1]
      [] ch = ")" -> [tok |-> Tok("rparen", ""), pos |-> pos + 1]
      [] ch = "[" -> refToken(text, pos, indexOf(text, "]", pos + 1))
      [] ch \in {"\"", "'"} -> stringToken(scanString(text, pos + 1, ch, ""))
      [] OTHER ->
            IF two \in ops2 THEN [tok |-> Tok("op", two), pos |-> pos + 2]
            ELSE IF ch \in oneOps THEN [tok |-> Tok("op", ch), pos |-> pos + 1]
            ELSE IF isDigit(ch) \/ (ch = "." /\ isDigit(peek(text, pos)))
                 THEN numberToken(text, pos, scanNumber(text, pos + 1))
            ELSE IF isIdentStart(ch)
                 THEN identToken(SubSeq(text, pos, scanIdent(text, pos + 1) - 1),
                                 scanIdent(text, pos + 1))
            ELSE [tok |-> Tok("op", ch), pos |-> pos + 1]

\* The token at a position that is not white space.
nextAt(text, pos) ==
    IF pos > Len(text) THEN [tok |-> Tok("eof", ""), pos |-> pos]
    ELSE tokenAt(text, pos, Ch(text, pos),
                 SubSeq(text, pos, IF pos + 1 <= Len(text) THEN pos + 1 ELSE Len(text)))

\* ExprTokenizer.next: the token at pos and the position after it.
next(text, pos0) == nextAt(text, skipWs(text, pos0))

\* ---------------------------------------------------------------- ExprParser
\* Parser state: the lookahead token and the tokenizer position.  Every parse
\* operator returns [ok, ast, p]; ok = FALSE is the thrown Error, which every
\* caller passes on unchanged.
NoAst == [type |-> "none"]
Fail(p) == [ok |-> FALSE, ast |-> NoAst, p |-> p]
Done(ast, p) == [ok |-> TRUE, ast |-> ast, p |-> p]

lookahead(t) == [la |-> t.tok, pos |-> t.pos]

ExprParser(text) == lookahead(next(text, 1))

advance(text, p) == lookahead(next(text, p.pos))

match(p, type) == p.la.type = type

\* eat(type): the state after the token, or the thrown Error.
eat(text, p, type) ==
    IF p.la.type # type THEN Fail(p) ELSE Done(NoAst, advance(text, p))

\* The operators accepted by each binary level, lowest precedence first.
LevelOps(lvl) ==
    CASE lvl = 1 -> {"OR", "||"}
      [] lvl = 2 -> {"AND", "&&"}
      [] lvl = 3 -> {"==", "!="}
      [] lvl = 4 -> {">", "<", ">=", "<="}
      [] lvl = 5 -> {"+", "-"}
      [] lvl = 6 -> {"*", "/"}
      [] lvl = 7 -> {"^"}

UnaryLevel == 8

RECURSIVE parseLevel(_, _, _)
RECURSIVE parseLoop(_, _, _, _)
RECURSIVE loopAfter(_, _, _)
RECURSIVE parseUnary(_, _)
RECURSIVE parsePrimary(_, _)
RECURSIVE parseArgs(_, _, _)
RECURSIVE argsAfter(_, _, _)

\* node = { type: "bin", op, left, right: <operand r> }
binNode(op, left, r) ==
    IF ~r.ok THEN r
    ELSE Done([type |-> "bin", op |-> op, left |-> left, right |-> r.ast], r.p)

\* One binary level: operand (op operand)*, folded to the left.
parseLevel(lvl, text, p) ==
    IF lvl = UnaryLevel THEN parseUnary(text, p)
    ELSE loopAfter(lvl, text, parseLevel(lvl + 1, text, p))

\* The while loop of a level, entered with the node built so far.
loopAfter(lvl, text, l) == IF ~l.ok THEN l ELSE parseLoop(lvl, text, l.ast, l.p)

parseLoop(lvl, text, left, p) ==
    IF p.la.type = "op" /\ p.la.value \in LevelOps(lvl)
    THEN loopAfter(lvl, text,
                   binNode(p.la.value, left, parseLevel(lvl + 1, text, advance(text, p))))
    ELSE Done(left, p)

parseOr(text, p) == parseLevel(1, text, p)
parseAnd(text, p) == parseLevel(2, text, p)
parseEquality(text, p) == parseLevel(3, text, p)
parseComparison(text, p) == parseLevel(4, text, p)
parseTerm(text, p) == parseLevel(5, text, p)
parseFactor(text, p) == parseLevel(6, text, p)
parsePower(text, p) == parseLevel(7, text, p)

\* { type: "un", op, expr: <operand e> }
unNode(op, e) ==
    IF ~e.ok THEN e ELSE Done([type |-> "un", op |-> op, expr |-> e.ast], e.p)

parseUnary(text, p) ==
    IF p.la.type = "op" /\ p.la.value \in {"+", "-", "NOT", "!"}
    THEN unNode(p.la.value, parseUnary(text, advance(text, p)))
    ELSE parsePrimary(text, p)

\* The argument list after an argument a: (, arg)* up to the ")".
argsAfter(text, args, a) ==
    IF ~a.ok THEN a ELSE parseArgs(text, Append(args, a.ast), a.p)

parseArgs(text, args, p) ==
    IF match(p, "comma")
    THEN argsAfter(text, args, parseLevel(1, text, advance(text, p)))
    ELSE Done(args, p)

\* The node once its closing token has been eaten.
closed(ast, close) == IF ~close.ok THEN close ELSE Done(ast, close.p)

\* this.eat("rparen") after a parenthesised expression e
parenClose(text, e) ==
    IF ~e.ok THEN e ELSE closed(e.ast, eat(text, e.p, "rparen"))

\* this.eat("rparen") after the argument list of a call
callClose(text, ident, first) ==
    IF ~first.ok THEN first
    ELSE closed([type |-> "call", name |-> ident, args |-> first.ast],
                eat(text, first.p, "rparen"))

\* After "ident (": the arguments, empty when ")" follows at once.
callArgs(text, ident, p2) ==
    callClose(text, ident,
              IF match(p2, "rparen") THEN Done(<<>>, p2)
              ELSE argsAfter(text, <<>>, parseLevel(1, text, p2)))

\* After an identifier: a call when "(" follows, a bare identifier otherwise.
identPrimary(text, ident, p1) ==
    IF match(p1, "lparen") THEN callArgs(text, ident, advance(text, p1))
    ELSE Done([type |-> "ident", value |-> ident], p1)

parsePrimary(text, p) ==
    CASE match(p, "number") ->
            Done([type |-> "num", value |-> parseFloat(p.la.value)], advance(text, p))
      [] match(p, "string") ->
            Done([type |-> "str", value |-> p.la.value], advance(text, p))
      [] match(p, "ref") ->
            Done([type |-> "ref", value |-> p.la.value], advance(text, p))
      [] match(p, "ident") -> identPrimary(text, p.la.value, advance(text, p))
      [] match(p, "lparen") -> parenClose(text, parseLevel(1, text, advance(text, p)))
      [] match(p, "eof") -> Done([type |-> "num", value |-> Num(0)], p)
      [] OTHER -> Fail(p)

\* The AST of a finished parse, NoAst when the parser threw.
parsedAst(r) == IF r.ok THEN r.ast ELSE NoAst

\* new ExprParser(text).parse() under the caller's try/catch.
parse(text) == parsedAst(parseOr(text, ExprParser(text)))

\* ---------------------------------------------------------------- maps
\* A JavaScript Map is a function on the set of its keys.
EmptyMap == [k \in {} |-> Null]
has(m, k) == k \in DOMAIN m
set(m, k, v) == [x \in DOMAIN m \cup {k} |-> IF x = k THEN v ELSE m[x]]

\* map.get(code)?.get(colKey): the entry, Null (undefined) when there is none.
get2(m, code, colKey) ==
    IF has(m, code) /\ has(m[code], colKey) THEN m[code][colKey] ELSE Null

has2(m, code, colKey) == has(m, code) /\ has(m[code], colKey)

\* if (!m.has(code)) m.set(code, new Map())
ensureRow(m, code) == IF has(m, code) THEN m ELSE set(m, code, EmptyMap)

set2(m, code, colKey, v) ==
    LET m1 == ensureRow(m, code) IN set(m1, code, set(m1[code], colKey, v))

\* ---------------------------------------------------------------- inputs
\* One bound record: the raw category values of the row fields and of the
\* column fields, the raw group value, and one raw value per measure.
Measures == <<"Sales">>

Rec(rowVals, colVals, grp, vals) ==
    [rowVals |-> rowVals, colVals |-> colVals, grp |-> grp, vals |-> vals]

\* Records of the cell-aggregation specification: two rows, two columns, and
\* raw values of every coercion class (number, numeric string, boolean, empty
\* string, text, null).
CellRows == {<<"P", "a">>, <<"P", "b">>}
CellCols == {<<"2023">>, <<"2024">>}
CellRaws == {Num(5), Num(3), Str("7"), Bool(TRUE), Str("x"), Null}
CellRecords == {Rec(r, c, Null, <<v>>) : r \in CellRows, c \in CellCols, v \in CellRaws}

\* Records of the build specification.
BuildRowTuples == {<<"P", "a">>, <<"P", "b">>, <<"Q", "a">>}
BuildCols == {<<"2023">>, <<"2024">>}
BuildRaws == {Num(1), Num(2)}
BuildRecords == {Rec(r, c, Null, <<v>>) : r \in BuildRowTuples, c \in BuildCols, v \in BuildRaws}

\* ---------------------------------------------------------------- state
VARIABLES
    layoutRows,            \* parseLayoutRows(layoutJson): sequence of LayoutRow
    formulas,              \* parseFormulas(formulasJson): code -> formula text
    blankAsZero, autoAggregateParents, showSubtotals, showGrandTotal,
    pc,                    \* stage of buildModel about to run
    recordCount,           \* records consumed by the record loop
    columns,               \* BucketedColumnKey list
    valuesMap,             \* code -> colKey -> number | null
    valuesRawMap,          \* code -> colKey -> raw value
    dataCodes,             \* insertion order of dataLabelByCode
    dataLabelByCode, dataParentByCode, dataRowLevelByCode,
    rowByCode,             \* code -> RowNode
    rowOrder,              \* insertion order of rowByCode
    roots,
    flatRows,              \* flattened RowNode list (model.rows)
    pass,                  \* fixpoint passes run so far
    changed,               \* the `changed` flag of the last pass run
    contributions,         \* history: <<code, colKey>> -> raw values added, in order
    preFormula,            \* history: valuesMap when the fixpoint loop started
    preAggregate,          \* history: valuesMap when auto-aggregation started
    lastPassChanged,       \* history: did the last pass alter a calc cell
    layoutJson,            \* formattingSettings.layout.layoutJson.value
    formulasJson,          \* formattingSettings.layout.formulasJson.value
    cfRulesJson,           \* persisted conditional-formatting rules
    customTableJson,       \* persisted custom-table definition
    cfEnabled,             \* conditionalFormatting.enabled
    cfEditorDraft,         \* CFConfig under edit, Null while the editor is closed
    customTableEditorDraft,\* CustomTableConfig under edit, Null while closed
    cfConfig,              \* the config the last render resolved styles from
    painted,               \* target -> styles the last render resolved for it
    saved,                 \* history: cleanDraft of the last OK, Undefined before
    edits,                 \* history: edits made to drafts so far
    customTableEnabled,    \* formattingSettings.customTable.enabled
    pendingCustomTableJson,\* text applied locally and not yet echoed by the host, or Null
    pendingCustomTableSetAt,\* Date.now() of that Apply, 0 when nothing is pending
    now,                   \* Date.now(), in milliseconds
    lastHandshake          \* history: the branch the last Apply or update took

handshakeVars == <<customTableEnabled, pendingCustomTableJson, pendingCustomTableSetAt,
                   now, lastHandshake>>

formatVars == <<layoutJson, formulasJson, cfRulesJson, customTableJson, cfEnabled,
                cfEditorDraft, customTableEditorDraft, cfConfig, painted, saved, edits,
                handshakeVars>>

vars == <<layoutRows, formulas, blankAsZero, autoAggregateParents, showSubtotals,
          showGrandTotal, pc, recordCount, columns, valuesMap, valuesRawMap,
          dataCodes, dataLabelByCode, dataParentByCode, dataRowLevelByCode,
          rowByCode, rowOrder, roots, flatRows, pass, changed, contributions,
          preFormula, preAggregate, lastPassChanged, formatVars>>

\* What a build reads and leaves alone: the settings and the formatting state.
configVars == <<layoutRows, formulas, blankAsZero, autoAggregateParents,
                showSubtotals, showGrandTotal, formatVars>>
ingestVars == <<columns, valuesRawMap, dataCodes, dataLabelByCode,
                dataParentByCode, dataRowLevelByCode, contributions, recordCount>>
rowVars == <<rowByCode, rowOrder, roots>>
historyVars == <<preFormula, preAggregate, lastPassChanged>>

\* ---------------------------------------------------------------- record loop
norm(v) ==
    LET s == IF isNullish(v) THEN "" ELSE v.s
        t == trim(s)
    IN  IF t # "" THEN t ELSE "(Blank)"

getRowLevels(rec) == [i \in 1..Len(rec.rowVals) |-> norm(Str(rec.rowVals[i]))]
getColumnLevels(rec) == [i \in 1..Len(rec.colVals) |-> norm(Str(rec.colVals[i]))]

\* The trimmed group value, Null when there is none.
getGroup(rec) ==
    LET s == IF isNullish(rec.grp) THEN "" ELSE rec.grp.s
        t == trim(s)
    IN  IF t # "" THEN Str(t) ELSE Null

makeLevels(colLevels, leaf) ==
    IF Len(colLevels) = 0 THEN <<leaf>>
    ELSE IF Len(colLevels) = 1 THEN <<colLevels[1] \o " " \o leaf>>
    ELSE Append(SubSeq(colLevels, 1, Len(colLevels) - 1),
                join(colLevels, " ") \o " " \o leaf)

formatColumnLeafLabel(measure, key) == IF measure # "" THEN measure ELSE key

columnKey(bucket, measureName, colLevels) ==
    join(colLevels, "||") \o "||" \o bucket \o "||" \o measureName

\* ensureColumn: the column list with the column of this key appended when new.
ensureColumn(cols, bucket, measureName, colLevels) ==
    LET leaf == bucket \o "||" \o measureName
        key == columnKey(bucket, measureName, colLevels)
        leafLabel == formatColumnLeafLabel(measureName, leaf)
    IN  IF \E i \in 1..Len(cols) : cols[i].key = key THEN cols
        ELSE Append(cols, [bucket |-> bucket, measure |-> measureName, key |-> key,
                           levels |-> makeLevels(colLevels, leafLabel),
                           columnLevels |-> colLevels, leafLabel |-> leafLabel])

\* The numeric branch of addCell: prev + n, or n when nothing numeric is there.
addCellNextOverwrite(prev, n) == n
addCellNext(prev, n) ==
    IF isNullish(prev) \/ ~isFinite(prev) THEN n ELSE Num(prev.n + n.n)

\* The non-numeric branch of addCell on the value map: a null entry is
\* created only when the cell has no entry.
addCellBlankClobber(vm, code, colKey) == set2(vm, code, colKey, Null)
addCellBlank(vm, code, colKey) ==
    IF has2(vm, code, colKey) THEN ensureRow(vm, code) ELSE set2(vm, code, colKey, Null)

\* The raw-map side of addCell: the first raw value of a cell that has no
\* entry when the value is not numeric, the running sum when it is.
addCellRawLatest(rm, code, colKey, rawAny, isNum, nextSum) == set2(rm, code, colKey, rawAny)
addCellRaw(rm, code, colKey, rawAny, isNum, nextSum) ==
    IF isNum THEN set2(rm, code, colKey, nextSum)
    ELSE IF has2(rm, code, colKey) THEN ensureRow(rm, code)
    ELSE set2(rm, code, colKey, rawAny)

\* addCell(code, colKey, rawAny): the two maps after the call.
addCell(vm, rm, code, colKey, rawAny) ==
    LET n == toNumber(rawAny) IN
    IF ~isFinite(n)
    THEN [valuesMap |-> addCellBlank(vm, code, colKey),
          valuesRawMap |-> addCellRaw(rm, code, colKey, rawAny, FALSE, Null)]
    ELSE LET prev == get2(vm, code, colKey)
             nextSum == addCellNext(prev, n)
         IN  [valuesMap |-> set2(vm, code, colKey, nextSum),
              valuesRawMap |-> addCellRaw(rm, code, colKey, rawAny, TRUE, nextSum)]

\* The measure loop of one record: for every measure of the "values" bucket,
\* ensureColumn and addCell on the leaf code.
RECURSIVE measureLoop(_, _, _, _, _)
measureLoop(st, rec, leafCode, colLevels, i) ==
    IF i > Len(Measures) THEN st
    ELSE LET cols == ensureColumn(st.columns, "values", Measures[i], colLevels)
             key == columnKey("values", Measures[i], colLevels)
             c == addCell(st.valuesMap, st.valuesRawMap, leafCode, key, rec.vals[i])
             k == <<leafCode, key>>
             hist == IF has(st.contributions, k) THEN st.contributions[k] ELSE <<>>
         IN  measureLoop([columns |-> cols, valuesMap |-> c.valuesMap,
                          valuesRawMap |-> c.valuesRawMap,
                          contributions |-> set(st.contributions, k,
                                                 Append(hist, rec.vals[i]))],
                         rec, leafCode, colLevels, i + 1)

\* The prefix loop of one record: a data node for every prefix of the row
\* tuple that has none yet; the first label, parent and level of a code stay.
RECURSIVE prefixLoop(_, _, _, _)
prefixLoop(st, rowLevels, parent, lvl) ==
    IF lvl > Len(rowLevels) THEN st
    ELSE LET code == join(SubSeq(rowLevels, 1, lvl), "||")
             isNew == ~has(st.dataLabelByCode, code)
         IN  prefixLoop(
                [dataCodes |-> IF isNew THEN Append(st.dataCodes, code) ELSE st.dataCodes,
                 dataLabelByCode |-> IF isNew THEN set(st.dataLabelByCode, code, rowLevels[lvl])
                                     ELSE st.dataLabelByCode,
                 dataParentByCode |-> IF has(st.dataParentByCode, code) THEN st.dataParentByCode
                                      ELSE set(st.dataParentByCode, code, parent),
                 dataRowLevelByCode |-> IF has(st.dataRowLevelByCode, code)
                                        THEN st.dataRowLevelByCode
                                        ELSE set(st.dataRowLevelByCode, code, lvl - 1)],
                rowLevels, Str(code), lvl + 1)

\* The group value of a record becomes a data node of row level -1.
groupNode(st, grp) ==
    IF isNullish(grp) \/ has(st.dataLabelByCode, grp.s) THEN st
    ELSE [dataCodes |-> Append(st.dataCodes, grp.s),
          dataLabelByCode |-> set(st.dataLabelByCode, grp.s, grp.s),
          dataParentByCode |-> set(st.dataParentByCode, grp.s, Null),
          dataRowLevelByCode |-> set(st.dataRowLevelByCode, grp.s, 0 - 1)]

\* One iteration of the record loop of buildModel: the data nodes and the
\* cell maps after the record.
recordStep(rec) ==
    LET rowLevels == getRowLevels(rec)
        grp == getGroup(rec)
        leafCode == join(rowLevels, "||")
        colLevels == getColumnLevels(rec)
    IN  [nodes |-> prefixLoop(groupNode([dataCodes |-> dataCodes,
                                         dataLabelByCode |-> dataLabelByCode,
                                         dataParentByCode |-> dataParentByCode,
                                         dataRowLevelByCode |-> dataRowLevelByCode], grp),
                              rowLevels, grp, 1),
         cells |-> measureLoop([columns |-> columns, valuesMap |-> valuesMap,
                                valuesRawMap |-> valuesRawMap,
                                contributions |-> contributions],
                               rec, leafCode, colLevels, 1)]

AddRecord(rec, max) ==
    /\ pc = "records"
    /\ recordCount < max
    /\ Len(getRowLevels(rec)) > 0
    /\ \E step \in {recordStep(rec)} :
           /\ dataCodes' = step.nodes.dataCodes
           /\ dataLabelByCode' = step.nodes.dataLabelByCode
           /\ dataParentByCode' = step.nodes.dataParentByCode
           /\ dataRowLevelByCode' = step.nodes.dataRowLevelByCode
           /\ columns' = step.cells.columns
           /\ valuesMap' = step.cells.valuesMap
           /\ valuesRawMap' = step.cells.valuesRawMap
           /\ contributions' = step.cells.contributions
    /\ recordCount' = recordCount + 1
    /\ UNCHANGED <<configVars, rowVars, historyVars, pc, flatRows, pass, changed>>

\* ---------------------------------------------------------------- localeCompare
\* Collation rank of a character: punctuation, then digits, then letters, a
\* letter's two cases sharing one primary rank.
Punct == <<" ", "_", "-", ",", ".", "!", "'", "\"", "(", ")", "[", "]", "{", "}",
           "@", "*", "/", "&", "#", "%", "^", "+", "<", "=", ">", "|", "$">>
Alphabet == <<"a", "b", "c", "d", "e", "f", "g", "h", "i", "j", "k", "l", "m",
              "n", "o", "p", "q", "r", "s", "t", "u", "v", "w", "x", "y", "z">>

posIn(seq, c) == IF \E i \in 1..Len(seq) : seq[i] = c
                 THEN CHOOSE i \in 1..Len(seq) : seq[i] = c ELSE 0

primaryRank(c) ==
    IF posIn(Punct, c) > 0 THEN posIn(Punct, c)
    ELSE IF isDigit(c) THEN 100 + DigitVal(c)
    ELSE IF c \in Lower THEN 200 + posIn(Alphabet, c)
    ELSE IF c \in Upper THEN 200 + CHOOSE i \in 1..26 : UpperOf(Alphabet[i]) = c
    ELSE 0

caseRank(c) == IF c \in Upper THEN 1 ELSE 0

sign(k) == IF k < 0 THEN 0 - 1 ELSE IF k > 0 THEN 1 ELSE 0

\* Compare by the ranks rank(c) of the characters, a prefix before its extensions.
RECURSIVE compareByPrimary(_, _, _)
compareByPrimary(a, b, i) ==
    IF i > Len(a) /\ i > Len(b) THEN 0
    ELSE IF i > Len(a) THEN 0 - 1
    ELSE IF i > Len(b) THEN 1
    ELSE IF primaryRank(Ch(a, i)) # primaryRank(Ch(b, i))
         THEN sign(primaryRank(Ch(a, i)) - primaryRank(Ch(b, i)))
    ELSE compareByPrimary(a, b, i + 1)

RECURSIVE compareByCase(_, _, _)
compareByCase(a, b, i) ==
    IF i > Len(a) \/ i > Len(b) THEN 0
    ELSE IF caseRank(Ch(a, i)) # caseRank(Ch(b, i))
         THEN sign(caseRank(Ch(a, i)) - caseRank(Ch(b, i)))
    ELSE compareByCase(a, b, i + 1)

\* a.localeCompare(b): -1, 0 or 1.
localeCompare(a, b) ==
    LET c == compareByPrimary(a, b, 1) IN
    IF c # 0 THEN c ELSE compareByCase(a, b, 1)

\* ---------------------------------------------------------------- columns.sort
RECURSIVE compareLevels(_, _, _)
compareLevels(a, b, i) ==
    LET len == IF Len(a) > Len(b) THEN Len(a) ELSE Len(b) IN
    IF i > len THEN 0
    ELSE LET av == IF i <= Len(a) THEN a[i] ELSE ""
             bv == IF i <= Len(b) THEN b[i] ELSE ""
             c == localeCompare(av, bv)
         IN  IF c # 0 THEN c ELSE compareLevels(a, b, i + 1)

\* Stable insertion of x into a sorted column list.
RECURSIVE insertColumn(_, _)
insertColumn(sorted, x) ==
    IF Len(sorted) = 0 THEN <<x>>
    ELSE IF compareLevels(sorted[Len(sorted)].levels, x.levels, 1) <= 0
         THEN Append(sorted, x)
    ELSE Append(insertColumn(SubSeq(sorted, 1, Len(sorted) - 1), x), sorted[Len(sorted)])

RECURSIVE sortColumns(_, _)
sortColumns(cols, sorted) ==
    IF Len(cols) = 0 THEN sorted
    ELSE sortColumns(Tail(cols), insertColumn(sorted, Head(cols)))

\* ---------------------------------------------------------------- row forest
LayoutRow(code, label, parent, type, order, formula) ==
    [code |-> code, label |-> label, parent |-> parent, type |-> type,
     order |-> order, formula |-> formula]

\* Truthiness of a string-or-nullish value.
truthy(v) == ~isNullish(v) /\ v.s # ""

\* a || b || c on string-or-nullish values.
orElse(a, b) == IF truthy(a) THEN a ELSE b

\* addRow(r, fallbackLabel, fallbackParent) on [rowByCode, rowOrder, orderIndex].
addRow(st, r, fallbackLabel, fallbackParent) ==
    LET code == trim(orElse(r.code, Str("")).s) IN
    IF code = "" THEN st
    ELSE LET label == trim(orElse(r.label, orElse(fallbackLabel, Str(code))).s)
             parent == IF r.parent.t # "undef"
                       THEN (IF truthy(r.parent) THEN Str(trim(r.parent.s)) ELSE Null)
                       ELSE (IF isNullish(fallbackParent) THEN Null ELSE fallbackParent)
             type == orElse(r.type, Str("data")).s
             fromMap == IF has(formulas, code) THEN Str(formulas[code]) ELSE Undefined
             formula == orElse(r.formula, orElse(fromMap, Undefined))
             node == [code |-> code, label |-> label, parent |-> parent, type |-> type,
                      orderIndex |-> st.orderIndex, order |-> r.order,
                      formula |-> formula, children |-> <<>>, depth |-> 0,
                      rowLevel |-> IF has(dataRowLevelByCode, code)
                                   THEN Num(dataRowLevelByCode[code]) ELSE Undefined,
                      isTotal |-> FALSE]
         IN  [rowByCode |-> set(st.rowByCode, code, node),
              rowOrder |-> IF has(st.rowByCode, code) THEN st.rowOrder
                           ELSE Append(st.rowOrder, code),
              orderIndex |-> st.orderIndex + 1]

\* !!v
jsTruthy(v) == IF v.t \in {"obj", "arr"} THEN TRUE ELSE toBool(v)

\* x.trim() of a value that is not a string: a TypeError.
trimRaises(x) == x.t # "str"

\* addRow(r, undefined, null) raising a TypeError: r.code of a null entry, or
\* trim() of a truthy code, label or parent that is not a string.
addRowRaises(r) ==
    IF r = Null THEN TRUE
    ELSE IF jsTruthy(r.code) /\ trimRaises(r.code) THEN TRUE
    ELSE IF ~jsTruthy(r.code) \/ trim(r.code.s) = "" THEN FALSE
    ELSE \/ jsTruthy(r.label) /\ trimRaises(r.label)
         \/ r.parent.t # "undef" /\ jsTruthy(r.parent) /\ trimRaises(r.parent)

\* for (const r of layoutRows) addRow(r, undefined, null)
RECURSIVE addLayoutRows(_, _)
addLayoutRows(st, i) ==
    IF i > Len(layoutRows) THEN st
    ELSE addLayoutRows(addRow(st, layoutRows[i], Undefined, Null), i + 1)

\* The merge of the rows discovered from data: a declared row takes the
\* data parent and label only where its own is empty; other codes are added.
RECURSIVE addDataRows(_, _)
addDataRows(st, i) ==
    IF i > Len(dataCodes) THEN st
    ELSE LET code == dataCodes[i]
             label == dataLabelByCode[code]
             dataParent == IF has(dataParentByCode, code) /\ ~isNullish(dataParentByCode[code])
                           THEN dataParentByCode[code] ELSE Null
         IN  IF has(st.rowByCode, code)
             THEN LET existing == st.rowByCode[code]
                      merged == [existing EXCEPT
                                   !.parent = IF ~truthy(existing.parent) THEN dataParent
                                              ELSE existing.parent,
                                   !.label = IF existing.label = "" THEN label
                                             ELSE existing.label]
                  IN  addDataRows([st EXCEPT !.rowByCode = set(st.rowByCode, code, merged)],
                                  i + 1)
             ELSE addDataRows(addRow(st, LayoutRow(Str(code), Undefined, Undefined,
                                                   Str("data"), Undefined, Undefined),
                                     Str(label), dataParent),
                              i + 1)

resolvedParentDeclared(rb, r) == truthy(r.parent)
resolvedParent(rb, r) == truthy(r.parent) /\ has(rb, r.parent.s)

\* children lists: every row is pushed onto its resolved parent, in map order.
RECURSIVE linkChildren(_, _, _)
linkChildren(rb, order, i) ==
    IF i > Len(order) THEN rb
    ELSE LET r == rb[order[i]] IN
         IF resolvedParent(rb, r)
         THEN linkChildren([rb EXCEPT ![r.parent.s].children = Append(@, r.code)],
                           order, i + 1)
         ELSE linkChildren(rb, order, i + 1)

\* roots: the rows without a resolved parent, in map order.
RECURSIVE collectRoots(_, _, _)
collectRoots(rb, order, i) ==
    IF i > Len(order) THEN <<>>
    ELSE IF ~resolvedParent(rb, rb[order[i]])
         THEN <<order[i]>> \o collectRoots(rb, order, i + 1)
    ELSE collectRoots(rb, order, i + 1)

\* The comparator of sortChildren: explicit order, else insertion index; ties by label.
sortKeyIndexOnly(r) == r.orderIndex
sortKey(r) == IF isNullish(r.order) THEN r.orderIndex ELSE r.order.n
compareRows(ra, rb) ==
    IF sortKey(ra) # sortKey(rb) THEN sortKey(ra) - sortKey(rb)
    ELSE localeCompare(ra.label, rb.label)

RECURSIVE insertRow(_, _, _)
insertRow(rb, sorted, code) ==
    IF Len(sorted) = 0 THEN <<code>>
    ELSE IF compareRows(rb[sorted[Len(sorted)]], rb[code]) <= 0
         THEN Append(sorted, code)
    ELSE Append(insertRow(rb, SubSeq(sorted, 1, Len(sorted) - 1), code),
                sorted[Len(sorted)])

RECURSIVE sortInto(_, _, _)
sortInto(rb, codes, sorted) ==
    IF Len(codes) = 0 THEN sorted
    ELSE sortInto(rb, Tail(codes), insertRow(rb, sorted, Head(codes)))

sortChildren(rb, codes) == sortInto(rb, codes, <<>>)

\* visit(code, depth) for each code of a list: the rows in pre-order, each
\* with its depth.
RECURSIVE visitAll(_, _, _)
visitAll(rb, codes, depth) ==
    IF Len(codes) = 0 THEN <<>>
    ELSE LET code == Head(codes) IN
         (IF has(rb, code)
          THEN <<[rb[code] EXCEPT !.depth = depth]>>
               \o visitAll(rb, rb[code].children, depth + 1)
          ELSE <<>>)
         \o visitAll(rb, Tail(codes), depth)

\* Every row gets an entry, null when it has none, for every column.
RECURSIVE prefill(_, _, _, _)
prefill(vm, order, cols, i) ==
    IF i > Len(order) THEN vm
    ELSE LET m1 == ensureRow(vm, order[i])
             filled == [k \in DOMAIN m1[order[i]] \cup {cols[j].key : j \in 1..Len(cols)} |->
                          IF has(m1[order[i]], k) THEN m1[order[i]][k] ELSE Null]
         IN  prefill(set(m1, order[i], filled), order, cols, i + 1)

\* From the end of the record loop to the start of the formula loop: sort the
\* columns, build and link the row nodes, sort siblings, flatten, prefill.
\* visit stores each row's depth in the node itself.
buildRows ==
    LET st == addDataRows(addLayoutRows([rowByCode |-> EmptyMap, rowOrder |-> <<>>,
                                         orderIndex |-> 0], 1), 1)
        linked == linkChildren(st.rowByCode, st.rowOrder, 1)
        sorted == [c \in DOMAIN linked |->
                     [linked[c] EXCEPT !.children = sortChildren(linked, @)]]
        rts == sortChildren(sorted, collectRoots(sorted, st.rowOrder, 1))
        flat == visitAll(sorted, rts, 0)
        cols == sortColumns(columns, <<>>)
        visited == {flat[i].code : i \in 1..Len(flat)}
    IN  [rowByCode |-> [c \in DOMAIN sorted |->
                          IF c \in visited
                          THEN flat[CHOOSE i \in 1..Len(flat) : flat[i].code = c]
                          ELSE sorted[c]],
         rowOrder |-> st.rowOrder,
         roots |-> rts,
         flatRows |-> flat,
         columns |-> cols,
         valuesMap |-> prefill(valuesMap, st.rowOrder, cols, 1)]

\* An exception in addRow leaves buildModel: no model is returned.
BuildRows ==
    /\ pc = "records"
    /\ IF \E i \in 1..Len(layoutRows) : addRowRaises(layoutRows[i])
       THEN /\ pc' = "raised"
            /\ UNCHANGED <<rowVars, flatRows, columns, valuesMap, preFormula, pass, changed>>
       ELSE /\ \E b \in {buildRows} :
                   /\ rowByCode' = b.rowByCode
                   /\ rowOrder' = b.rowOrder
                   /\ roots' = b.roots
                   /\ flatRows' = b.flatRows
                   /\ columns' = b.columns
                   /\ valuesMap' = b.valuesMap
                   /\ preFormula' = b.valuesMap
            /\ pc' = "formulas"
            /\ pass' = 0
            /\ changed' = FALSE
    /\ UNCHANGED <<configVars, valuesRawMap, dataCodes, dataLabelByCode, dataParentByCode,
                   dataRowLevelByCode, contributions, recordCount, preAggregate,
                   lastPassChanged>>

\* ---------------------------------------------------------------- number arithmetic
\* IEEE arithmetic on "num" (integers), "nan" and "inf" values.  Negative
\* zero and non-integer results are outside the modelled domain.
isNaN(v) == v.t = "nan"
signOf(v) == IF v.t = "inf" THEN v.n ELSE sign(v.n)

numNeg(a) ==
    CASE a.t = "nan" -> NaN
      [] a.t = "inf" -> Inf(0 - a.n)
      [] a.t = "num" -> Num(0 - a.n)

numAdd(a, b) ==
    CASE isNaN(a) \/ isNaN(b) -> NaN
      [] a.t = "inf" /\ b.t = "inf" -> IF a.n = b.n THEN a ELSE NaN
      [] a.t = "inf" -> a
      [] b.t = "inf" -> b
      [] OTHER -> Num(a.n + b.n)

numSub(a, b) == numAdd(a, numNeg(b))

numMul(a, b) ==
    CASE isNaN(a) \/ isNaN(b) -> NaN
      [] a.t = "inf" \/ b.t = "inf" ->
            IF signOf(a) = 0 \/ signOf(b) = 0 THEN NaN ELSE Inf(signOf(a) * signOf(b))
      [] OTHER -> Num(a.n * b.n)

numDiv(a, b) ==
    CASE isNaN(a) \/ isNaN(b) -> NaN
      [] a.t = "inf" /\ b.t = "inf" -> NaN
      [] a.t = "inf" -> Inf(IF signOf(b) < 0 THEN 0 - a.n ELSE a.n)
      [] b.t = "inf" -> Num(0)
      [] b.n = 0 -> IF a.n = 0 THEN NaN ELSE Inf(sign(a.n))
      [] OTHER ->
            LET absA == IF a.n < 0 THEN 0 - a.n ELSE a.n
                absB == IF b.n < 0 THEN 0 - b.n ELSE b.n
            IN  IF absA % absB = 0
                THEN Num(sign(a.n) * sign(b.n) * (absA \div absB))
                ELSE Unmodelled

RECURSIVE intPow(_, _)
intPow(x, y) == IF y = 0 THEN 1 ELSE x * intPow(x, y - 1)

\* Math.pow(a, b)
numPow(a, b) ==
    CASE b.t = "num" /\ b.n = 0 -> Num(1)
      [] isNaN(a) \/ isNaN(b) -> NaN
      [] a.t = "num" /\ b.t = "num" /\ b.n > 0 -> Num(intPow(a.n, b.n))
      [] OTHER -> Unmodelled

\* a < b on numbers; any comparison with NaN is false.
numLess(a, b) ==
    CASE isNaN(a) \/ isNaN(b) -> FALSE
      [] a.t = "inf" /\ b.t = "inf" -> a.n < b.n
      [] a.t = "inf" -> a.n < 0
      [] b.t = "inf" -> b.n > 0
      [] OTHER -> a.n < b.n

\* a === b on numbers
numEq(a, b) == ~isNaN(a) /\ ~isNaN(b) /\ a = b

numAbs(a) == IF a.t = "inf" THEN Inf(1) ELSE IF a.t = "num" /\ a.n < 0 THEN Num(0 - a.n) ELSE a

\* Math.round(n * 10^d) / 10^d for d = max(0, floor(dArg))
numRound(n, dArg) ==
    CASE isNaN(n) \/ isNaN(dArg) -> NaN
      [] dArg.t = "inf" /\ dArg.n > 0 -> NaN
      [] OTHER -> n

\* String(v) of a value
RECURSIVE natToString(_)
natToString(k) ==
    LET d == <<"0", "1", "2", "3", "4", "5", "6", "7", "8", "9">>[(k % 10) + 1] IN
    IF k < 10 THEN d ELSE natToString(k \div 10) \o d

toStringOf(v) ==
    CASE v.t = "str" -> v.s
      [] v.t = "num" -> IF v.n < 0 THEN "-" \o natToString(0 - v.n) ELSE natToString(v.n)
      [] v.t = "bool" -> IF v.n = 1 THEN "true" ELSE "false"
      [] v.t = "nan" -> "NaN"
      [] v.t = "inf" -> IF v.n > 0 THEN "Infinity" ELSE "-Infinity"
      [] v.t = "null" -> "null"
      [] v.t = "undef" -> "undefined"

\* ---------------------------------------------------------------- evalAst
\* getCell: the cell's number, 0 or null for a blank one.
getCell(vm, code, colKey) ==
    LET v == get2(vm, code, colKey) IN
    IF isNullish(v) THEN (IF blankAsZero THEN Num(0) ELSE Null) ELSE v

\* String(x ?? "").trim()
asRowCode(x) == IF isNullish(x) THEN "" ELSE trim(toStringOf(x))

argAt(args, i) == IF i <= Len(args) THEN args[i] ELSE Undefined

RECURSIVE sumNums(_)
sumNums(nums) == IF Len(nums) = 0 THEN Num(0) ELSE numAdd(Head(nums), sumNums(Tail(nums)))

RECURSIVE minNums(_)
minNums(nums) ==
    IF Len(nums) = 1 THEN nums[1]
    ELSE LET m == minNums(Tail(nums)) IN IF numLess(m, nums[1]) THEN m ELSE nums[1]

RECURSIVE maxNums(_)
maxNums(nums) ==
    IF Len(nums) = 1 THEN nums[1]
    ELSE LET m == maxNums(Tail(nums)) IN IF numLess(nums[1], m) THEN m ELSE nums[1]

\* The numbers agg() collects from evaluated arguments: a string names a
\* row of the current column, anything else is a literal; blanks are skipped.
RECURSIVE aggNums(_, _, _)
aggNums(vm, args, colKey) ==
    IF Len(args) = 0 THEN <<>>
    ELSE LET a == Head(args)
             rest == aggNums(vm, Tail(args), colKey)
         IN  IF a.t = "str"
             THEN LET v == getCell(vm, asRowCode(a), colKey) IN
                  IF isNullish(v) THEN rest ELSE <<v>> \o rest
             ELSE LET n == toNumber(a) IN
                  IF ~isFinite(n) THEN rest ELSE <<n>> \o rest

agg(mode, nums) ==
    CASE mode = "COUNT" -> Num(Len(nums))
      [] Len(nums) = 0 -> Num(0)
      [] mode = "SUM" -> sumNums(nums)
      [] mode = "AVG" -> numDiv(sumNums(nums), Num(Len(nums)))
      [] mode = "MIN" -> minNums(nums)
      [] mode = "MAX" -> maxNums(nums)

\* The non-blank values of the direct children of a node in one column.
RECURSIVE childVals(_, _, _)
childVals(vm, children, colKey) ==
    IF Len(children) = 0 THEN <<>>
    ELSE LET v == getCell(vm, Head(children), colKey)
             rest == childVals(vm, Tail(children), colKey)
         IN  IF isNullish(v) THEN rest ELSE <<v>> \o rest

evalBin(op, l, r) ==
    CASE op = "+" -> numAdd(toNumber(l), toNumber(r))
      [] op = "-" -> numSub(toNumber(l), toNumber(r))
      [] op = "*" -> numMul(toNumber(l), toNumber(r))
      [] op = "/" -> numDiv(toNumber(l), toNumber(r))
      [] op = "^" -> numPow(toNumber(l), toNumber(r))
      [] op = ">" -> Bool(numLess(toNumber(r), toNumber(l)))
      [] op = "<" -> Bool(numLess(toNumber(l), toNumber(r)))
      [] op = ">=" -> Bool(numLess(toNumber(r), toNumber(l)) \/ numEq(toNumber(l), toNumber(r)))
      [] op = "<=" -> Bool(numLess(toNumber(l), toNumber(r)) \/ numEq(toNumber(l), toNumber(r)))
      [] op = "==" -> Bool(numEq(toNumber(l), toNumber(r)))
      [] op = "!=" -> Bool(~numEq(toNumber(l), toNumber(r)))
      [] op \in {"AND", "&&"} -> Bool(toBool(l) /\ toBool(r))
      [] op \in {"OR", "||"} -> Bool(toBool(l) \/ toBool(r))
      [] OTHER -> Num(0)

evalCall(name, args, colKey, vm, rb) ==
    CASE name = "VALUE" ->
            LET code == asRowCode(argAt(args, 1))
                measure == IF Len(args) >= 2 THEN asRowCode(args[2]) ELSE ""
                period == IF Len(args) >= 3 THEN asRowCode(args[3]) ELSE ""
                key == IF period # "" /\ measure # "" THEN period \o "||" \o measure
                       ELSE IF measure # "" THEN measure
                       ELSE IF period # "" THEN period
                       ELSE colKey
            IN  getCell(vm, code, key)
      [] name = "IF" ->
            IF toBool(argAt(args, 1)) THEN toNumber(argAt(args, 2))
            ELSE toNumber(argAt(args, 3))
      [] name = "ABS" -> numAbs(toNumber(argAt(args, 1)))
      [] name = "ROUND" ->
            numRound(toNumber(argAt(args, 1)),
                     IF Len(args) >= 2 THEN toNumber(args[2]) ELSE Num(0))
      [] name \in {"SUM", "AVG", "MIN", "MAX", "COUNT"} ->
            agg(name, aggNums(vm, args, colKey))
      [] name \in {"SUMCHILDREN", "AVGCHILDREN", "COUNTCHILDREN"} ->
            LET code == asRowCode(argAt(args, 1)) IN
            IF ~has(rb, code) THEN Num(0)
            ELSE LET vals == childVals(vm, rb[code].children, colKey) IN
                 IF name = "COUNTCHILDREN" THEN Num(Len(vals))
                 ELSE IF Len(vals) = 0 THEN Num(0)
                 ELSE IF name = "SUMCHILDREN" THEN sumNums(vals)
                 ELSE numDiv(sumNums(vals), Num(Len(vals)))
      [] OTHER -> Num(0)

RECURSIVE evalAst(_, _, _, _)
evalAst(ast, colKey, vm, rb) ==
    CASE ast.type = "num" -> ast.value
      [] ast.type = "str" -> Str(ast.value)
      [] ast.type = "ref" -> getCell(vm, ast.value, colKey)
      [] ast.type = "ident" ->
            LET upper == toUpperCase(ast.value) IN
            IF upper = "TRUE" THEN Bool(TRUE)
            ELSE IF upper = "FALSE" THEN Bool(FALSE)
            ELSE Num(0)
      [] ast.type = "un" ->
            LET v == evalAst(ast.expr, colKey, vm, rb) IN
            IF ast.op = "-" THEN numNeg(toNumber(v))
            ELSE IF ast.op \in {"NOT", "!"} THEN Bool(~toBool(v))
            ELSE toNumber(v)
      [] ast.type = "bin" ->
            evalBin(toUpperCase(ast.op), evalAst(ast.left, colKey, vm, rb),
                    evalAst(ast.right, colKey, vm, rb))
      [] ast.type = "call" ->
            evalCall(toUpperCase(ast.name),
                     [i \in 1..Len(ast.args) |-> evalAst(ast.args[i], colKey, vm, rb)],
                     colKey, vm, rb)
      [] OTHER -> Num(0)

\* ---------------------------------------------------------------- formula loop
MaxPasses == 6

\* calcRows: the calc rows that have a formula, in map order.
RECURSIVE calcRowsOf(_, _, _)
calcRowsOf(rb, order, i) ==
    IF i > Len(order) THEN <<>>
    ELSE IF rb[order[i]].type = "calc" /\ truthy(rb[order[i]].formula)
         THEN <<order[i]>> \o calcRowsOf(rb, order, i + 1)
    ELSE calcRowsOf(rb, order, i + 1)

calcRows == calcRowsOf(rowByCode, rowOrder, 1)

\* The value stored for an evaluation result.
storedValueAsIs(out) == toNumber(out)
storedValue(out) ==
    LET num == toNumber(out) IN
    IF isFinite(num) THEN num ELSE (IF blankAsZero THEN Num(0) ELSE Null)

\* A cell of a row whose formula did not parse: null, and no change is flagged.
failedCellAsBlank(st, code, colKey) ==
    [vm |-> set2(st.vm, code, colKey, IF blankAsZero THEN Num(0) ELSE Null),
     changed |-> st.changed]
failedCell(st, code, colKey) ==
    [vm |-> set2(st.vm, code, colKey, Null), changed |-> st.changed]

\* One cell of one pass on [vm, changed]: the result is stored, and the
\* change flagged, when it differs from the cell's value.
evalCell(st, code, ast, colKey) ==
    IF ast = NoAst THEN failedCell(st, code, colKey)
    ELSE LET prev == get2(st.vm, code, colKey)
             nextVal == storedValue(evalAst(ast, colKey, st.vm, rowByCode))
         IN  IF (IF isNullish(prev) THEN Null ELSE prev) # nextVal
             THEN [vm |-> set2(st.vm, code, colKey, nextVal), changed |-> TRUE]
             ELSE st

RECURSIVE evalRow(_, _, _, _)
evalRow(st, code, ast, j) ==
    IF j > Len(columns) THEN st
    ELSE evalRow(evalCell(st, code, ast, columns[j].key), code, ast, j + 1)

RECURSIVE evalPass(_, _, _)
evalPass(st, rows, i) ==
    IF i > Len(rows) THEN st
    ELSE evalPass(evalRow(st, rows[i], parse(rowByCode[rows[i]].formula.s), 1),
                  rows, i + 1)

\* The loop ends when a pass changed nothing or after MaxPasses passes.
loopEnds(passesRun, changedFlag) == ~changedFlag \/ passesRun >= MaxPasses

\* One pass of the fixpoint loop over all calc rows and columns.
FormulaPass ==
    /\ pc = "formulas"
    /\ \E st \in {evalPass([vm |-> valuesMap, changed |-> FALSE], calcRows, 1)} :
           /\ valuesMap' = st.vm
           /\ changed' = st.changed
           /\ lastPassChanged' = (st.vm # valuesMap)
           /\ \E ends \in {loopEnds(pass + 1, st.changed)} :
                  /\ pc' = IF ends THEN "aggregate" ELSE "formulas"
                  /\ preAggregate' = IF ends THEN st.vm ELSE preAggregate
    /\ pass' = pass + 1
    /\ UNCHANGED <<configVars, ingestVars, rowVars, flatRows, preFormula>>

\* ---------------------------------------------------------------- auto-aggregation
\* The sum of the non-null entries of the given rows in one column:
\* [sum, hasAny].
RECURSIVE sumPresent(_, _, _)
sumPresent(vm, codes, colKey) ==
    IF Len(codes) = 0 THEN [sum |-> 0, hasAny |-> FALSE]
    ELSE LET cv == get2(vm, Head(codes), colKey)
             rest == sumPresent(vm, Tail(codes), colKey)
         IN  IF isNullish(cv) THEN rest
             ELSE [sum |-> cv.n + rest.sum, hasAny |-> TRUE]

\* hasAny ? sum : (blankAsZero ? 0 : null)
totalValue(t) == IF t.hasAny THEN Num(t.sum) ELSE (IF blankAsZero THEN Num(0) ELSE Null)

\* The column loop of one parent row: a cell that has a value is kept.
aggregateCellOverwrite(vm, r, colKey) ==
    set2(vm, r.code, colKey, totalValue(sumPresent(vm, r.children, colKey)))
aggregateCell(vm, r, colKey) ==
    IF ~isNullish(get2(vm, r.code, colKey)) THEN vm
    ELSE set2(vm, r.code, colKey, totalValue(sumPresent(vm, r.children, colKey)))

RECURSIVE aggregateRow(_, _, _)
aggregateRow(vm, r, j) ==
    IF j > Len(columns) THEN vm
    ELSE aggregateRow(aggregateCell(vm, r, columns[j].key), r, j + 1)

reverse(seq) == [i \in 1..Len(seq) |-> seq[Len(seq) + 1 - i]]

\* The rows in the order auto-aggregation walks them: the flattened list reversed.
postOrder(flat) == reverse(flat)

RECURSIVE aggregateRows(_, _, _)
aggregateRows(vm, rows, i) ==
    IF i > Len(rows) THEN vm
    ELSE LET r == rows[i] IN
         IF r.type = "blank" \/ r.type = "calc" \/ Len(r.children) = 0
         THEN aggregateRows(vm, rows, i + 1)
         ELSE aggregateRows(aggregateRow(vm, r, 1), rows, i + 1)

AutoAggregate ==
    /\ pc = "aggregate"
    /\ valuesMap' = IF autoAggregateParents
                    THEN aggregateRows(valuesMap, postOrder(flatRows), 1)
                    ELSE valuesMap
    /\ pc' = "subtotals"
    /\ UNCHANGED <<configVars, ingestVars, rowVars, historyVars, flatRows, pass, changed>>

\* ---------------------------------------------------------------- subtotals
subtotalCode(code) == code \o "||__subtotal"

\* The guards of pushSubtotalFor.
getsSubtotalAnyType(r) ==
    /\ ~(r.rowLevel.t = "num" /\ r.rowLevel.n = 0 - 1)
    /\ Len(r.children) # 0
getsSubtotal(r) ==
    /\ ~(r.rowLevel.t = "num" /\ r.rowLevel.n = 0 - 1)
    /\ r.type # "blank" /\ r.type # "calc"
    /\ Len(r.children) # 0

\* The subtotal row of r.  Its orderIndex, r.orderIndex + 0.5, is never read
\* after creation and is kept as r.orderIndex.
subtotalRow(r) ==
    [code |-> subtotalCode(r.code), label |-> "Total " \o r.label, parent |-> r.parent,
     type |-> "calc", orderIndex |-> r.orderIndex, order |-> r.order,
     formula |-> Undefined, children |-> <<>>, depth |-> r.depth,
     rowLevel |-> r.rowLevel, isTotal |-> TRUE]

\* The rows whose values a subtotal row of r sums.
RECURSIVE descendants(_, _)
descendants(rb, codes) ==
    IF Len(codes) = 0 THEN <<>>
    ELSE (IF has(rb, Head(codes))
          THEN <<Head(codes)>> \o descendants(rb, rb[Head(codes)].children)
          ELSE <<>>)
         \o descendants(rb, Tail(codes))
subtotalSourceAll(rb, r) == descendants(rb, r.children)
subtotalSource(rb, r) == r.children

RECURSIVE subtotalValues(_, _, _, _)
subtotalValues(vm, rb, r, j) ==
    IF j > Len(columns) THEN ensureRow(vm, subtotalCode(r.code))
    ELSE subtotalValues(set2(vm, subtotalCode(r.code), columns[j].key,
                             totalValue(sumPresent(vm, subtotalSource(rb, r),
                                                   columns[j].key))),
                        rb, r, j + 1)

\* pushSubtotalFor(r) on [out, vm]
pushSubtotalFor(st, rb, r) ==
    IF ~getsSubtotal(r) THEN st
    ELSE [out |-> Append(st.out, subtotalRow(r)), vm |-> subtotalValues(st.vm, rb, r, 1)]

RECURSIVE visitSubtotalFirst(_, _, _)
visitSubtotalFirst(st, rb, codes) ==
    IF Len(codes) = 0 THEN st
    ELSE LET code == Head(codes) IN
         IF ~has(rb, code) THEN visitSubtotalFirst(st, rb, Tail(codes))
         ELSE LET r == rb[code]
                  own == pushSubtotalFor([out |-> Append(st.out, r), vm |-> st.vm], rb, r)
              IN  visitSubtotalFirst(visitSubtotalFirst(own, rb, r.children), rb, Tail(codes))

\* visitWithSubtotals(code) for each code of a list, on [out, vm]: the row,
\* its children's subtrees, then its subtotal row.
RECURSIVE visitWithSubtotals(_, _, _)
visitWithSubtotals(st, rb, codes) ==
    IF Len(codes) = 0 THEN st
    ELSE LET code == Head(codes) IN
         IF ~has(rb, code) THEN visitWithSubtotals(st, rb, Tail(codes))
         ELSE LET r == rb[code]
                  inner == visitWithSubtotals([out |-> Append(st.out, r), vm |-> st.vm],
                                              rb, r.children)
              IN  visitWithSubtotals(pushSubtotalFor(inner, rb, r), rb, Tail(codes))

Subtotals ==
    /\ pc = "subtotals"
    /\ IF showSubtotals
       THEN \E st \in {visitWithSubtotals([out |-> <<>>, vm |-> valuesMap], rowByCode, roots)} :
                flatRows' = st.out /\ valuesMap' = st.vm
       ELSE UNCHANGED <<flatRows, valuesMap>>
    /\ pc' = "grandTotal"
    /\ UNCHANGED <<configVars, ingestVars, rowVars, historyVars, pass, changed>>

\* ---------------------------------------------------------------- grand total
gtCode == "__grand_total"

gtRow ==
    [code |-> gtCode, label |-> "Grand Total", parent |-> Null, type |-> "calc",
     orderIndex |-> 1000000, order |-> Undefined, formula |-> Undefined,
     children |-> <<>>, depth |-> 0, rowLevel |-> Undefined, isTotal |-> TRUE]

\* sumRows: the rows of the flattened list the grand total adds up.
sumRowFilterAll(r) == r.type # "blank"
sumRowFilter(r) == r.type # "blank" /\ Len(r.children) = 0 /\ ~r.isTotal

sumRows(flat) == SelectSeq(flat, sumRowFilter)

codesOf(rows) == [i \in 1..Len(rows) |-> rows[i].code]

RECURSIVE grandTotalValues(_, _, _)
grandTotalValues(vm, rows, j) ==
    IF j > Len(columns) THEN ensureRow(vm, gtCode)
    ELSE grandTotalValues(set2(vm, gtCode, columns[j].key,
                               totalValue(sumPresent(vm, codesOf(rows), columns[j].key))),
                          rows, j + 1)

GrandTotal ==
    /\ pc = "grandTotal"
    /\ IF showGrandTotal
       THEN /\ valuesMap' = grandTotalValues(valuesMap, sumRows(flatRows), 1)
            /\ flatRows' = Append(flatRows, gtRow)
       ELSE UNCHANGED <<flatRows, valuesMap>>
    /\ pc' = "done"
    /\ UNCHANGED <<configVars, ingestVars, rowVars, historyVars, pass, changed>>

\* ---------------------------------------------------------------- JSON
\* Objects and arrays next to the primitive values: an object keeps its keys
\* in insertion order, an array its items in `vals`.
Obj(keys, vals) == [t |-> "obj", n |-> 0, s |-> "", keys |-> keys, vals |-> vals]
Arr(items) == [t |-> "arr", n |-> 0, s |-> "", keys |-> <<>>, vals |-> items]
EmptyObj == Obj(<<>>, <<>>)

isArray(v) == v.t = "arr"
\* typeof v === "object" (null included)
isObjectType(v) == v.t \in {"obj", "arr", "null"}

keyIndex(keys, k) == IF \E i \in 1..Len(keys) : keys[i] = k
                     THEN CHOOSE i \in 1..Len(keys) : keys[i] = k
                     ELSE 0

\* Object.prototype.hasOwnProperty.call(v, k) && v != null
hasOwn(v, k) == v.t = "obj" /\ keyIndex(v.keys, k) > 0

\* v.k: undefined on a missing key or on a primitive; reading a property of
\* null or undefined throws.
prop(v, k) ==
    CASE v.t = "obj" -> IF keyIndex(v.keys, k) > 0 THEN v.vals[keyIndex(v.keys, k)]
                        ELSE Undefined
      [] v.t \in {"null", "undef"} -> Unmodelled
      [] OTHER -> Undefined

\* v?.k
optProp(v, k) == IF isNullish(v) THEN Undefined ELSE prop(v, k)

\* obj[k] = v: a new key goes last, an existing key keeps its place.
putKey(o, k, v) ==
    IF keyIndex(o.keys, k) > 0
    THEN Obj(o.keys, [o.vals EXCEPT ![keyIndex(o.keys, k)] = v])
    ELSE Obj(Append(o.keys, k), Append(o.vals, v))

\* JSON.parse: the outcome of reading a value at a position; ok = FALSE is
\* the SyntaxError.  Numbers are integers without fraction or exponent and
\* strings escape only the quote, the backslash, the slash and \n \r \t;
\* texts outside this subset are not modelled.
JFail == [ok |-> FALSE, v |-> Undefined, p |-> 0]
JOk(v, p) == [ok |-> TRUE, v |-> v, p |-> p]

charAt(text, pos) == IF pos <= Len(text) THEN Ch(text, pos) ELSE ""

RECURSIVE jsonString(_, _, _)
RECURSIVE jsonSteps(_, _, _)
RECURSIVE jsonRun(_, _, _)

unescaped(c) ==
    CASE c \in {"\"", "\\", "/"} -> c
      [] c = "n" -> "\n"
      [] c = "r" -> "\r"
      [] c = "t" -> "\t"
      [] c \in {"b", "f", "u"} -> Unmodelled

jsonStringAt(text, pos, out, c) ==
    CASE c = "" -> JFail
      [] c = "\"" -> JOk(Str(out), pos + 1)
      [] c = "\\" -> IF charAt(text, pos + 1) \in {"\"", "\\", "/", "n", "r", "t", "b", "f", "u"}
                     THEN jsonString(text, pos + 2, out \o unescaped(charAt(text, pos + 1)))
                     ELSE JFail
      [] c \in {"\n", "\r", "\t"} -> JFail
      [] OTHER -> jsonString(text, pos + 1, out \o c)

\* The characters after the opening quote, up to the closing one.
jsonString(text, pos, out) == jsonStringAt(text, pos, out, charAt(text, pos))

RECURSIVE digitsEnd(_, _)
digitsEnd(text, pos) ==
    IF isDigit(charAt(text, pos)) THEN digitsEnd(text, pos + 1) ELSE pos

jsonDigits(text, from, e, neg) ==
    CASE e = from -> JFail
      [] e > from + 1 /\ Ch(text, from) = "0" -> JFail
      [] charAt(text, e) \in {".", "e", "E"} -> Unmodelled
      [] OTHER -> JOk(Num(IF neg THEN 0 - digitsValue(SubSeq(text, from, e - 1), 0)
                          ELSE digitsValue(SubSeq(text, from, e - 1), 0)), e)

jsonNumber(text, pos) ==
    IF Ch(text, pos) = "-"
    THEN jsonDigits(text, pos + 1, digitsEnd(text, pos + 1), TRUE)
    ELSE jsonDigits(text, pos, digitsEnd(text, pos), FALSE)

jsonLiteral(text, pos, word, v) ==
    IF pos + Len(word) - 1 <= Len(text) /\ SubSeq(text, pos, pos + Len(word) - 1) = word
    THEN JOk(v, pos + Len(word))
    ELSE JFail

\* The position of the first quote at or after pos, Len(text) + 1 without one.
closingQuote(text, pos) ==
    CHOOSE e \in pos..(Len(text) + 1) :
        /\ e > Len(text) \/ Ch(text, e) = "\""
        /\ \A j \in pos..(e - 1) : Ch(text, j) # "\""

\* No escape and no line break or tab in text[pos .. e - 1].
plainChars(text, pos, e) ==
    \A j \in pos..(e - 1) : Ch(text, j) \notin {"\\", "\n", "\r", "\t"}

jsonStringTo(text, pos, e) ==
    CASE ~plainChars(text, pos, e) -> jsonString(text, pos, "")
      [] e > Len(text) -> JFail
      [] OTHER -> JOk(Str(SubSeq(text, pos, e - 1)), e + 1)

\* The string whose opening quote is before pos; read in one piece when it
\* holds no escape.
jsonStringFrom(text, pos) == jsonStringTo(text, pos, closingQuote(text, pos))

jsonScalarAt(text, pos, c) ==
    CASE c = "\"" -> jsonStringFrom(text, pos + 1)
      [] c = "-" \/ isDigit(c) -> jsonNumber(text, pos)
      [] c = "t" -> jsonLiteral(text, pos, "true", Bool(TRUE))
      [] c = "f" -> jsonLiteral(text, pos, "false", Bool(FALSE))
      [] c = "n" -> jsonLiteral(text, pos, "null", Null)
      [] OTHER -> JFail

\* The parser between two tokens: the objects and arrays still open
\* (innermost last, an object with the key whose value is being read), the
\* position, and whether a value is to be read there ("value") or has just
\* been read ("after").
Frame(kind, v, key) == [kind |-> kind, v |-> v, key |-> key]

Expect(stack, p) ==
    [ok |-> TRUE, done |-> FALSE, mode |-> "value", stack |-> stack, v |-> Undefined, p |-> p]

Got(stack, v, p) ==
    [ok |-> TRUE, done |-> FALSE, mode |-> "after", stack |-> stack, v |-> v, p |-> p]

Parsed(v, p) ==
    [ok |-> TRUE, done |-> TRUE, mode |-> "end", stack |-> <<>>, v |-> v, p |-> p]

Broken ==
    [ok |-> FALSE, done |-> TRUE, mode |-> "end", stack |-> <<>>, v |-> Undefined, p |-> 0]

jsonKeyColon(text, stack, o, k) ==
    IF k.ok /\ charAt(text, skipWs(text, k.p)) = ":"
    THEN Expect(Append(stack, Frame("obj", o, k.v.s)), skipWs(text, k.p) + 1)
    ELSE Broken

\* "key" : of the next member of o
jsonKeyAt(text, stack, o, pos) ==
    IF charAt(text, pos) = "\"" THEN jsonKeyColon(text, stack, o, jsonStringFrom(text, pos + 1))
    ELSE Broken

jsonOpenObject(text, stack, pos) ==
    IF charAt(text, pos) = "}" THEN Got(stack, EmptyObj, pos + 1)
    ELSE jsonKeyAt(text, stack, EmptyObj, pos)

jsonOpenArray(text, stack, pos) ==
    IF charAt(text, pos) = "]" THEN Got(stack, Arr(<<>>), pos + 1)
    ELSE Expect(Append(stack, Frame("arr", <<>>, "")), pos)

jsonScalar(stack, r) == IF r.ok THEN Got(stack, r.v, r.p) ELSE Broken

\* The start of a value at pos.
jsonValueAt(text, stack, pos) ==
    CASE charAt(text, pos) = "{" -> jsonOpenObject(text, stack, skipWs(text, pos + 1))
      [] charAt(text, pos) = "[" -> jsonOpenArray(text, stack, skipWs(text, pos + 1))
      [] OTHER -> jsonScalar(stack, jsonScalarAt(text, pos, charAt(text, pos)))

jsonAfterElement(text, below, items, pos) ==
    CASE charAt(text, pos) = "]" -> Got(below, Arr(items), pos + 1)
      [] charAt(text, pos) = "," -> Expect(Append(below, Frame("arr", items, "")), pos + 1)
      [] OTHER -> Broken

jsonAfterMember(text, below, o, pos) ==
    CASE charAt(text, pos) = "}" -> Got(below, o, pos + 1)
      [] charAt(text, pos) = "," -> jsonKeyAt(text, below, o, skipWs(text, pos + 1))
      [] OTHER -> Broken

\* The value just read goes into the innermost open array or object.
jsonAttach(text, below, frame, v, pos) ==
    IF frame.kind = "arr" THEN jsonAfterElement(text, below, Append(frame.v, v), pos)
    ELSE jsonAfterMember(text, below, putKey(frame.v, frame.key, v), pos)

jsonStep(text, s) ==
    CASE s.mode = "value" -> jsonValueAt(text, s.stack, skipWs(text, s.p))
      [] s.stack = <<>> -> Parsed(s.v, s.p)
      [] OTHER -> jsonAttach(text, SubSeq(s.stack, 1, Len(s.stack) - 1),
                             s.stack[Len(s.stack)], s.v, skipWs(text, s.p))

\* k steps, half by half.
jsonSteps(text, s, k) ==
    CASE s.done -> s
      [] k = 1 -> jsonStep(text, s)
      [] OTHER -> jsonSteps(text, jsonSteps(text, s, k \div 2), k - k \div 2)

\* Steps up to the end of the value: k more, then twice as many.
jsonRun(text, s, k) == IF s.done THEN s ELSE jsonRun(text, jsonSteps(text, s, k), 2 * k)

jsonRead(s) == IF s.ok THEN JOk(s.v, s.p) ELSE JFail

jsonValue(text, pos) == jsonRead(jsonRun(text, Expect(<<>>, pos), 8))

jsonWhole(text, r) ==
    IF r.ok /\ skipWs(text, r.p) = Len(text) + 1 THEN r ELSE JFail

JSON_parse(text) == jsonWhole(text, jsonValue(text, 1))

\* JSON.stringify: members whose value is undefined are left out, NaN and the
\* infinities are written as null.
escaped(c) ==
    CASE c = "\"" -> "\\\""
      [] c = "\\" -> "\\\\"
      [] c = "\n" -> "\\n"
      [] c = "\r" -> "\\r"
      [] c = "\t" -> "\\t"
      [] OTHER -> c

RECURSIVE quoteChars(_, _)
quoteChars(text, i) ==
    IF i > Len(text) THEN "" ELSE escaped(Ch(text, i)) \o quoteChars(text, i + 1)

quote(text) ==
    IF \A i \in 1..Len(text) : Ch(text, i) \notin {"\"", "\\", "\n", "\r", "\t"}
    THEN "\"" \o text \o "\""
    ELSE "\"" \o quoteChars(text, 1) \o "\""

RECURSIVE JSON_stringify(_)
RECURSIVE stringifyMembers(_, _, _)
RECURSIVE stringifyItems(_, _, _)

\* Two comma-separated lists in one; an undefined member leaves no text.
listed(a, b) == IF a = "" THEN b ELSE IF b = "" THEN a ELSE a \o "," \o b

\* The members i .. j of o, written half by half.
stringifyMembers(o, i, j) ==
    CASE i > j -> ""
      [] i = j -> IF o.vals[i].t = "undef" THEN ""
                  ELSE quote(o.keys[i]) \o ":" \o JSON_stringify(o.vals[i])
      [] OTHER -> listed(stringifyMembers(o, i, (i + j) \div 2),
                         stringifyMembers(o, (i + j) \div 2 + 1, j))

stringifyItems(items, i, j) ==
    CASE i > j -> ""
      [] i = j -> IF items[i].t = "undef" THEN "null" ELSE JSON_stringify(items[i])
      [] OTHER -> stringifyItems(items, i, (i + j) \div 2) \o ","
                  \o stringifyItems(items, (i + j) \div 2 + 1, j)

JSON_stringify(v) ==
    CASE v.t = "str" -> quote(v.s)
      [] v.t \in {"num", "bool"} -> toStringOf(v)
      [] v.t \in {"null", "nan", "inf"} -> "null"
      [] v.t = "arr" -> "[" \o stringifyItems(v.vals, 1, Len(v.vals)) \o "]"
      [] v.t = "obj" -> "{" \o stringifyMembers(v, 1, Len(v.keys)) \o "}"

\* ---------------------------------------------------------------- config parsers
LowerOf(c) ==
    CASE c = "A" -> "a" [] c = "B" -> "b" [] c = "C" -> "c" [] c = "D" -> "d"
      [] c = "E" -> "e" [] c = "F" -> "f" [] c = "G" -> "g" [] c = "H" -> "h"
      [] c = "I" -> "i" [] c = "J" -> "j" [] c = "K" -> "k" [] c = "L" -> "l"
      [] c = "M" -> "m" [] c = "N" -> "n" [] c = "O" -> "o" [] c = "P" -> "p"
      [] c = "Q" -> "q" [] c = "R" -> "r" [] c = "S" -> "s" [] c = "T" -> "t"
      [] c = "U" -> "u" [] c = "V" -> "v" [] c = "W" -> "w" [] c = "X" -> "x"
      [] c = "Y" -> "y" [] c = "Z" -> "z" [] OTHER -> c

RECURSIVE toLowerCase(_)
toLowerCase(text) ==
    IF Len(text) = 0 THEN ""
    ELSE LowerOf(Ch(text, 1)) \o toLowerCase(SubSeq(text, 2, Len(text)))


\* String(v ?? "").trim()
trimmedString(v) == trim(IF isNullish(v) THEN "" ELSE toStringOf(v))

\* The rows of a layout array as the records addRow reads.  The array is
\* returned as parsed: a null entry stays null, and an entry that is not an
\* object has no members.
asLayoutRow(v) ==
    IF isNullish(v) THEN v
    ELSE LayoutRow(prop(v, "code"), prop(v, "label"), prop(v, "parent"),
                   prop(v, "type"), prop(v, "order"), prop(v, "formula"))

asLayoutRows(items) == [i \in 1..Len(items) |-> asLayoutRow(items[i])]

parsedLayoutRows(r) ==
    CASE ~r.ok -> <<>>
      [] isArray(r.v) -> asLayoutRows(r.v.vals)
      [] jsTruthy(r.v) /\ isArray(prop(r.v, "rows")) -> asLayoutRows(prop(r.v, "rows").vals)
      [] OTHER -> <<>>

parseLayoutRows(raw) ==
    IF trim(raw) = "" THEN <<>> ELSE parsedLayoutRows(JSON_parse(trim(raw)))

\* Object.entries(parsed) of an object, in key order.
RECURSIVE formulaEntries(_, _, _)
formulaEntries(o, i, out) ==
    IF i > Len(o.keys) THEN out
    ELSE formulaEntries(o, i + 1,
                        IF trim(o.keys[i]) # "" /\ trimmedString(o.vals[i]) # ""
                        THEN set(out, trim(o.keys[i]), trimmedString(o.vals[i]))
                        ELSE out)

parsedFormulas(r) ==
    CASE ~r.ok -> EmptyMap
      [] ~jsTruthy(r.v) \/ ~isObjectType(r.v) -> EmptyMap
      [] r.v.t = "obj" -> formulaEntries(r.v, 1, EmptyMap)
      [] r.v.t = "arr" /\ Len(r.v.vals) = 0 -> EmptyMap

parseFormulas(raw) ==
    IF trim(raw) = "" THEN EmptyMap ELSE parsedFormulas(JSON_parse(trim(raw)))

\* --- normalizeCfRule
clean(v) == IF isNullish(v) THEN "" ELSE toStringOf(v)

cleanOptional(v) == IF trim(clean(v)) # "" THEN Str(trim(clean(v))) ELSE Undefined

cleanMode(m) == IF m \in {Str("equals"), Str("contains")} THEN m ELSE Str("any")
cleanTarget(t) == IF t \in {Str("columnHeader"), Str("cell")} THEN t ELSE Str("rowHeader")
cleanCond(c) == IF c = Str("text") THEN c ELSE Str("value")
cleanScope(s) == IF s \in {Str("entireRow"), Str("entireColumn")} THEN s ELSE Str("self")
cleanFormatProp(p) ==
    IF p \in {Str("background"), Str("fontColor"), Str("icon")} THEN p ELSE Undefined
cleanOp(o) ==
    IF o \in {Str("gt"), Str("gte"), Str("lt"), Str("lte"), Str("eq"), Str("between"),
              Str("contains")}
    THEN o ELSE Str("gte")

\* if (v) style[k] = v
putDefined(o, k, v) == IF v.t = "undef" THEN o ELSE putKey(o, k, v)

\* if (hasOwn(r.style, k)) style[k] = r.style?.[k] === true
putFlag(o, st, k) ==
    IF hasOwn(st, k) THEN putKey(o, k, Bool(prop(st, k) = Bool(TRUE))) ELSE o

\* The style of a normalized rule: only the properties the rule defines.
cleanStyle(st) ==
    putFlag(putFlag(putFlag(
        putDefined(putDefined(putDefined(EmptyObj,
            "fontColor", cleanOptional(optProp(st, "fontColor"))),
            "background", cleanOptional(optProp(st, "background"))),
            "iconName", cleanOptional(optProp(st, "iconName"))),
        st, "bold"), st, "italic"), st, "underline")

inferredFormatProp(declared, style) ==
    CASE declared.t # "undef" -> declared
      [] hasOwn(style, "iconName") -> Str("icon")
      [] hasOwn(style, "background") /\ ~hasOwn(style, "fontColor") -> Str("background")
      [] hasOwn(style, "fontColor") /\ ~hasOwn(style, "background") -> Str("fontColor")
      [] OTHER -> Str("background")

RuleKeys ==
    <<"id", "enabled", "target", "scope", "formatProp", "rowMatchMode", "rowMatchText",
      "colMatchMode", "colMatchText", "conditionType", "operator", "value1", "value2",
      "style">>

normalizedRule(r, id, style) ==
    Obj(RuleKeys,
        <<Str(id), Bool(jsTruthy(prop(r, "enabled"))), cleanTarget(prop(r, "target")),
          cleanScope(prop(r, "scope")),
          inferredFormatProp(cleanFormatProp(prop(r, "formatProp")), style),
          cleanMode(prop(r, "rowMatchMode")), Str(clean(prop(r, "rowMatchText"))),
          cleanMode(prop(r, "colMatchMode")), Str(clean(prop(r, "colMatchText"))),
          cleanCond(prop(r, "conditionType")), cleanOp(prop(r, "operator")),
          Str(clean(prop(r, "value1"))), Str(clean(prop(r, "value2"))), style>>)

\* normalizeCfRule(r); `fresh` is the id cryptoId("r") returns when it is called.
normalizeCfRule(r, fresh) ==
    normalizedRule(r, IF clean(prop(r, "id")) # "" THEN clean(prop(r, "id")) ELSE fresh,
                   cleanStyle(prop(r, "style")))

\* --- safeParseCfConfig
CfConfig(version, rules, surfaces) ==
    Obj(<<"version", "rules", "surfaces">>, <<version, Arr(rules), surfaces>>)

DefaultCfConfig == CfConfig(Num(1), <<>>, Undefined)

\* rules.filter(r => !!r).map(r => normalizeCfRule(r)); ids[k] is the fresh id
\* of the k-th call.
RECURSIVE normalizeRules(_, _, _, _)
normalizeRules(items, ids, i, out) ==
    IF i > Len(items) THEN out
    ELSE normalizeRules(items, ids, i + 1,
                        IF jsTruthy(items[i])
                        THEN Append(out, normalizeCfRule(items[i], ids[Len(out) + 1]))
                        ELSE out)

cleanSurfacesDropped(s) == Undefined

cleanSurfaces(s) == IF jsTruthy(s) /\ isObjectType(s) THEN s ELSE Undefined

parsedCfConfigLatest(r, ids) ==
    IF /\ r.ok
       /\ optProp(r.v, "version") \in {Num(1), Num(2)}
       /\ jsTruthy(r.v)
       /\ isArray(prop(r.v, "rules"))
    THEN CfConfig(prop(r.v, "version"),
                  normalizeRules(prop(r.v, "rules").vals, ids, 1, <<>>),
                  cleanSurfaces(prop(r.v, "surfaces")))
    ELSE CfConfig(Num(2), <<>>, Undefined)

parsedCfConfig(r, ids) ==
    IF /\ r.ok
       /\ optProp(r.v, "version") \in {Num(1), Num(2)}
       /\ jsTruthy(r.v)
       /\ isArray(prop(r.v, "rules"))
    THEN CfConfig(prop(r.v, "version"),
                  normalizeRules(prop(r.v, "rules").vals, ids, 1, <<>>),
                  cleanSurfaces(prop(r.v, "surfaces")))
    ELSE DefaultCfConfig

safeParseCfConfig(json, ids) == parsedCfConfig(JSON_parse(json), ids)

\* --- safeParseCustomTableConfig
EmptyCustomTable ==
    Obj(<<"version", "parents", "children">>, <<Num(1), Arr(<<>>), Arr(<<>>)>>)

arrayOrEmpty(v) == IF isArray(v) THEN v.vals ELSE <<>>

normAgg(a) ==
    IF toLowerCase(trim(IF isNullish(a) THEN "none" ELSE toStringOf(a)))
           \in {"sum", "avg", "min", "max", "count", "none"}
    THEN toLowerCase(trim(IF isNullish(a) THEN "none" ELSE toStringOf(a)))
    ELSE "none"

\* The format of a custom-table row; a given format object is not modelled.
normFormat(f) == IF ~jsTruthy(f) \/ ~isObjectType(f) THEN Undefined ELSE Unmodelled

RECURSIVE ctValues(_, _, _)
ctValues(items, i, out) ==
    IF i > Len(items) THEN out
    ELSE ctValues(items, i + 1,
                  IF trimmedString(optProp(items[i], "field")) # ""
                  THEN Append(out, Obj(<<"field", "aggregation">>,
                                       <<Str(trimmedString(optProp(items[i], "field"))),
                                         Str(normAgg(optProp(items[i], "aggregation")))>>))
                  ELSE out)

ctParent(p) ==
    Obj(<<"parentNo", "parentName", "values", "format">>,
        <<Str(trimmedString(optProp(p, "parentNo"))),
          Str(trimmedString(optProp(p, "parentName"))),
          Arr(ctValues(arrayOrEmpty(optProp(p, "values")), 1, <<>>)),
          normFormat(optProp(p, "format"))>>)

RECURSIVE ctParents(_, _, _)
ctParents(items, i, out) ==
    IF i > Len(items) THEN out
    ELSE ctParents(items, i + 1,
                   IF trimmedString(optProp(items[i], "parentNo")) # ""
                   THEN Append(out, ctParent(items[i]))
                   ELSE out)

orUndefined(text) == IF text = "" THEN Undefined ELSE Str(text)

ctChild(c, fresh) ==
    Obj(<<"id", "setParentNo", "childName", "childNameFromField", "parentMatchField",
          "values", "format">>,
        <<Str(IF trimmedString(optProp(c, "id")) # "" THEN trimmedString(optProp(c, "id"))
              ELSE fresh),
          Str(trimmedString(optProp(c, "setParentNo"))),
          Str(trimmedString(optProp(c, "childName"))),
          orUndefined(trimmedString(optProp(c, "childNameFromField"))),
          orUndefined(trimmedString(optProp(c, "parentMatchField"))),
          Arr(ctValues(arrayOrEmpty(optProp(c, "values")), 1, <<>>)),
          normFormat(optProp(c, "format"))>>)

RECURSIVE ctChildren(_, _, _, _)
ctChildren(items, ids, i, out) ==
    IF i > Len(items) THEN out
    ELSE ctChildren(items, ids, i + 1,
                    IF \/ trimmedString(optProp(items[i], "childName")) # ""
                       \/ trimmedString(optProp(items[i], "childNameFromField")) # ""
                    THEN Append(out, ctChild(items[i], ids[i]))
                    ELSE out)

RECURSIVE ctHidden(_, _, _)
ctHidden(items, i, out) ==
    IF i > Len(items) THEN out
    ELSE ctHidden(items, i + 1,
                  IF trimmedString(items[i]) # "" THEN Append(out, Str(trimmedString(items[i])))
                  ELSE out)

parsedCustomTable(r, ids) ==
    IF ~r.ok THEN EmptyCustomTable
    ELSE IF ~jsTruthy(r.v) \/ prop(r.v, "version") # Num(1) THEN EmptyCustomTable
    ELSE Obj(<<"version", "parents", "children", "showValueNamesInColumns",
               "hiddenColumnFieldKeys">>,
             <<Num(1),
               Arr(ctParents(arrayOrEmpty(prop(r.v, "parents")), 1, <<>>)),
               Arr(ctChildren(arrayOrEmpty(prop(r.v, "children")), ids, 1, <<>>)),
               Bool(prop(r.v, "showValueNamesInColumns") = Bool(TRUE)),
               Arr(ctHidden(arrayOrEmpty(prop(r.v, "hiddenColumnFieldKeys")), 1, <<>>))>>)

safeParseCustomTableConfig(json, ids) == parsedCustomTable(JSON_parse(json), ids)

\* ---------------------------------------------------------------- rule evaluation
\* (s || "").trim().toLowerCase()
normText(s) == toLowerCase(trim(s))

\* hay.includes(needle)
includes(hay, needle) ==
    \E i \in 1..(Len(hay) - Len(needle) + 1) : SubSeq(hay, i, i + Len(needle) - 1) = needle

matchModes(mode, n, h) ==
    CASE mode = "any" -> TRUE
      [] n = "" -> TRUE
      [] mode = "equals" -> h = n
      [] OTHER -> includes(h, n)

matchText(mode, needle, hay) == matchModes(mode, normText(needle), normText(hay))

\* Number((s || "").trim()), NaN unless finite
parseNum(s) == IF isFinite(NumberOfString(trim(s))) THEN NumberOfString(trim(s)) ELSE NaN

\* The switch over rule.operator of a value condition on a finite v.
compareValue(op, v, a, b) ==
    CASE op = "gt" -> isFinite(a) /\ v.n > a.n
      [] op = "gte" -> isFinite(a) /\ v.n >= a.n
      [] op = "lt" -> isFinite(a) /\ v.n < a.n
      [] op = "lte" -> isFinite(a) /\ v.n <= a.n
      [] op = "eq" -> isFinite(a) /\ v.n = a.n
      [] op = "between" ->
            /\ isFinite(a) /\ isFinite(b)
            /\ v.n >= (IF a.n < b.n THEN a.n ELSE b.n)
            /\ v.n <= (IF a.n < b.n THEN b.n ELSE a.n)
      [] OTHER -> FALSE

valueCondition(rule, v) ==
    IF isNullish(v) \/ ~isFinite(v) THEN FALSE
    ELSE compareValue(prop(rule, "operator").s, v,
                      parseNum(prop(rule, "value1").s), parseNum(prop(rule, "value2").s))

compareText(op, t, n) ==
    CASE op = "contains" -> n # "" /\ includes(t, n)
      [] op = "eq" -> n # "" /\ t = n
      [] OTHER -> FALSE

textCondition(rule, text) ==
    compareText(prop(rule, "operator").s, normText(text), normText(prop(rule, "value1").s))

\* a || b || "" on strings that may be undefined
hayOf(a, b) == IF truthy(a) THEN a.s ELSE IF truthy(b) THEN b.s ELSE ""

\* (rule.formatProp || "background") !== ctx.formatProp, when ctx.formatProp is given
otherChannel(rule, ctx) ==
    /\ truthy(ctx.formatProp)
    /\ orElse(prop(rule, "formatProp"), Str("background")) # ctx.formatProp

matchesTexts(rule, ctx) ==
    /\ matchText(prop(rule, "rowMatchMode").s, prop(rule, "rowMatchText").s,
                 hayOf(ctx.rowLabel, ctx.rowCode))
    /\ matchText(prop(rule, "colMatchMode").s, prop(rule, "colMatchText").s,
                 hayOf(ctx.colText, ctx.colKey))

\* The body of the loop of evalCfRules: does the rule reach the merge.
ruleApplies(rule, ctx) ==
    /\ jsTruthy(prop(rule, "enabled"))
    /\ prop(rule, "target") = ctx.target
    /\ ~otherChannel(rule, ctx)
    /\ matchesTexts(rule, ctx)
    /\ IF prop(rule, "conditionType") = Str("value")
       THEN valueCondition(rule, ctx.value)
       ELSE textCondition(rule, hayOf(ctx.text, Str("")))

scopeOf(rule) == orElse(prop(rule, "scope"), Str("self"))

\* The body of the loop of evalCfRulesForValueCell.
cellRuleApplies(rule, ctx) ==
    /\ jsTruthy(prop(rule, "enabled"))
    /\ ~otherChannel(rule, ctx)
    /\ CASE prop(rule, "target") = Str("rowHeader") /\ scopeOf(rule) = Str("entireRow") ->
               /\ matchesTexts(rule, ctx)
               /\ prop(rule, "conditionType") = Str("text")
               /\ textCondition(rule, hayOf(ctx.rowLabel, ctx.rowCode))
         [] prop(rule, "target") = Str("columnHeader") /\ scopeOf(rule) = Str("entireColumn") ->
               /\ matchesTexts(rule, ctx)
               /\ prop(rule, "conditionType") = Str("text")
               /\ textCondition(rule, hayOf(ctx.colText, ctx.colKey))
         [] OTHER ->
               /\ prop(rule, "target") = Str("cell")
               /\ matchesTexts(rule, ctx)
               /\ prop(rule, "conditionType") = Str("value")
               /\ valueCondition(rule, ctx.value)

\* { ...a, ...b }: the own properties of b over those of a.
RECURSIVE spread(_, _, _)
spread(a, b, i) ==
    IF i > Len(b.keys) THEN a ELSE spread(putKey(a, b.keys[i], b.vals[i]), b, i + 1)

mergeStyleReplace(out, style) == IF jsTruthy(style) THEN style ELSE EmptyObj

\* out = { ...(out || {}), ...(rule.style || {}) }
mergeStyle(out, style) ==
    spread(IF jsTruthy(out) THEN out ELSE EmptyObj,
           IF jsTruthy(style) THEN style ELSE EmptyObj, 1)

RECURSIVE evalRulesFrom(_, _, _, _)
evalRulesFrom(rules, ctx, i, out) ==
    IF i > Len(rules) THEN out
    ELSE evalRulesFrom(rules, ctx, i + 1,
                       IF ruleApplies(rules[i], ctx)
                       THEN mergeStyle(out, prop(rules[i], "style"))
                       ELSE out)

evalCfRules(config, ctx) == evalRulesFrom(prop(config, "rules").vals, ctx, 1, Null)

RECURSIVE evalCellRulesFrom(_, _, _, _)
evalCellRulesFrom(rules, ctx, i, out) ==
    IF i > Len(rules) THEN out
    ELSE evalCellRulesFrom(rules, ctx, i + 1,
                           IF cellRuleApplies(rules[i], ctx)
                           THEN mergeStyle(out, prop(rules[i], "style"))
                           ELSE out)

evalCfRulesForValueCell(config, ctx) ==
    evalCellRulesFrom(prop(config, "rules").vals, ctx, 1, Null)

\* ---------------------------------------------------------------- surfaces
RulesSurface == Obj(<<"formatStyle">>, <<Str("rules")>>)

cfSurfaceKey(target, formatProp) == target \o ":" \o formatProp

surfaceEntry(config, key) ==
    IF jsTruthy(prop(config, "surfaces")) THEN prop(prop(config, "surfaces"), key)
    ELSE Undefined

surfaceOr(s, target, formatProp, fs) ==
    CASE fs \notin {Str("gradient"), Str("fieldValue"), Str("rules")} -> RulesSurface
      [] formatProp = "icon" /\ fs = Str("gradient") -> RulesSurface
      [] fs = Str("fieldValue") /\ formatProp = "icon" /\ target # "cell" -> RulesSurface
      [] OTHER -> s

surfaceChecked(s, target, formatProp) ==
    surfaceOr(s, target, formatProp, optProp(s, "formatStyle"))

getSurfaceSettings(config, target, formatProp) ==
    surfaceChecked(surfaceEntry(config, cfSurfaceKey(target, formatProp)), target, formatProp)

\* The part of an element's inline style that conditional formatting writes.
El(color, background, fontWeight, fontStyle, textDecoration) ==
    [color |-> color, background |-> background, fontWeight |-> fontWeight,
     fontStyle |-> fontStyle, textDecoration |-> textDecoration]

PlainEl == El("", "", "", "", "")

flagStyle(el, field, v, on) ==
    IF isNullish(v) THEN el ELSE [el EXCEPT ![field] = IF jsTruthy(v) THEN on ELSE ""]

colorStyle(el, field, v) == IF jsTruthy(v) THEN [el EXCEPT ![field] = v.s] ELSE el

applyCfStyle(el, style) ==
    IF ~jsTruthy(style) THEN el
    ELSE flagStyle(flagStyle(flagStyle(
             colorStyle(colorStyle(el, "color", prop(style, "fontColor")),
                        "background", prop(style, "background")),
             "fontWeight", prop(style, "bold"), "700"),
             "fontStyle", prop(style, "italic"), "italic"),
             "textDecoration", prop(style, "underline"), "underline")

\* prop === "background" ? el.style.background = c : el.style.color = c
paint(el, formatProp, c) ==
    IF formatProp = "background" THEN [el EXCEPT !.background = c]
    ELSE [el EXCEPT !.color = c]

HexDigits == <<"0", "1", "2", "3", "4", "5", "6", "7", "8", "9",
               "a", "b", "c", "d", "e", "f">>

isHexDigit(c) == c \in Digits \cup {"a", "b", "c", "d", "e", "f", "A", "B", "C", "D", "E", "F"}

hexVal(c) == CHOOSE k \in 0..15 : HexDigits[k + 1] = LowerOf(c)

allHex(text) == \A i \in 1..Len(text) : isHexDigit(Ch(text, i))

allLetters(text) == \A i \in 1..Len(text) : Ch(text, i) \in Lower \cup Upper

\* parseSafeCssColor: a hex colour or a colour name; the rgb()/hsl() forms
\* are not modelled.  "" stands for null.
safeColorOf(s) ==
    CASE s = "" -> ""
      [] Ch(s, 1) = "#" /\ Len(s) \in {4, 7, 9} /\ allHex(SubSeq(s, 2, Len(s))) -> s
      [] allLetters(s) -> s
      [] Len(s) > 3 /\ SubSeq(s, 1, 3) \in {"rgb", "hsl"} -> Unmodelled
      [] OTHER -> ""

parseSafeCssColor(v) == safeColorOf(trim(IF isNullish(v) THEN "" ELSE toStringOf(v)))

\* hexToRgb: <<r, g, b>>, or <<>> for null.
pair(h, i) == 16 * hexVal(Ch(h, i)) + hexVal(Ch(h, i + 1))

rgbOf(raw) ==
    CASE Len(raw) = 3 /\ allHex(raw) ->
             <<17 * hexVal(Ch(raw, 1)), 17 * hexVal(Ch(raw, 2)), 17 * hexVal(Ch(raw, 3))>>
      [] Len(raw) \in {6, 8} /\ allHex(SubSeq(raw, 1, 6)) ->
             <<pair(raw, 1), pair(raw, 3), pair(raw, 5)>>
      [] Len(raw) \in {3, 6, 8} -> Unmodelled
      [] OTHER -> <<>>

hexToRgb(hex) ==
    IF Len(trim(hex)) = 0 \/ Ch(trim(hex), 1) # "#" THEN <<>>
    ELSE rgbOf(SubSeq(trim(hex), 2, Len(trim(hex))))

toHex2(k) == HexDigits[(k \div 16) + 1] \o HexDigits[(k % 16) + 1]

\* Math.round(a + (b - a) * p / q) for 0 <= p <= q; q is a power of two up
\* to 4, where the floating-point product is exact.
lerpRound(a, b, p, q) ==
    IF q \in {1, 2, 4} THEN (2 * (a * q + (b - a) * p) + q) \div (2 * q) ELSE Unmodelled

lerpRgb(ca, cb, b, p, q) ==
    IF ca = <<>> \/ cb = <<>> THEN b
    ELSE "#" \o toHex2(lerpRound(ca[1], cb[1], p, q))
             \o toHex2(lerpRound(ca[2], cb[2], p, q))
             \o toHex2(lerpRound(ca[3], cb[3], p, q))

\* lerpColorHex(a, b, t) for t = p / q already clamped to [0, 1]
lerpColorHexFromEnd(a, b, p, q) == lerpRgb(hexToRgb(b), hexToRgb(a), b, p, q)
lerpColorHex(a, b, p, q) == lerpRgb(hexToRgb(a), hexToRgb(b), b, p, q)

\* p / q in lowest terms, the double the division yields when q is then a
\* power of two
lowest(p, q) ==
    <<p \div (CHOOSE g \in 1..q : p % g = 0 /\ q % g = 0
                                   /\ \A h \in (g + 1)..q : p % h # 0 \/ q % h # 0),
      q \div (CHOOSE g \in 1..q : p % g = 0 /\ q % g = 0
                                   /\ \A h \in (g + 1)..q : p % h # 0 \/ q % h # 0)>>

\* clamp01(n / d) as a fraction <<p, q>> with q > 0
clamp01(n, d) ==
    CASE d > 0 /\ n <= 0 -> <<0, 1>>
      [] d > 0 /\ n >= d -> <<1, 1>>
      [] d > 0 -> lowest(n, d)
      [] d < 0 /\ n >= 0 -> <<0, 1>>
      [] d < 0 /\ n <= d -> <<1, 1>>
      [] d < 0 -> lowest(0 - n, 0 - d)

\* The colour at t: straight from min to max, or through midColor at 1/2.
colorAt(s, t) ==
    IF jsTruthy(prop(s, "useMid"))
    THEN IF 2 * t[1] <= t[2]
         THEN lerpColorHex(prop(prop(s, "min"), "color").s, prop(s, "midColor").s,
                           2 * t[1], t[2])
         ELSE lerpColorHex(prop(s, "midColor").s, prop(prop(s, "max"), "color").s,
                           2 * t[1] - t[2], t[2])
    ELSE lerpColorHex(prop(prop(s, "min"), "color").s, prop(prop(s, "max"), "color").s,
                      t[1], t[2])

\* (v || "") on a string that may be missing
textOrEmpty(v) == CASE v.t = "str" -> v.s [] isNullish(v) -> ""

boundNumber(n, fallback) == IF isFinite(n) THEN n ELSE fallback

\* parseBound(b, fallback): Number((b.value || "").trim()) when b.type is "number"
parseBound(b, fallback) ==
    IF prop(b, "type") = Str("number")
    THEN boundNumber(NumberOfString(trim(textOrEmpty(prop(b, "value")))), fallback)
    ELSE fallback

gradientBetween(s, v, minVal, maxVal) ==
    IF maxVal.n - minVal.n = 0 THEN prop(prop(s, "max"), "color").s
    ELSE colorAt(s, clamp01(v.n - minVal.n, maxVal.n - minVal.n))

\* gradientColorFor(s, v, autoMin, autoMax), the same computation inline in
\* the row-header and value-cell branches.
gradientColorFor(s, v, autoMin, autoMax) ==
    gradientBetween(s, v, parseBound(prop(s, "min"), autoMin),
                    parseBound(prop(s, "max"), autoMax))

\* ---------------------------------------------------------------- render
\* One header or value cell of the table as conditional formatting sees it:
\* its codes and texts, its number (the cell value, or the sum a header
\* gradient ranges over), the raw value of the cell, the raw value found for
\* a surface's based-on field, the colour found among neighbouring raw
\* values ("" for none) and the observed range of the gradient key.
Target(target, rowCode, rowLabel, colKey, colText, leafLabel, value, raw, fieldRaw,
       nearColor, stats) ==
    [target |-> target, rowCode |-> rowCode, rowLabel |-> rowLabel, colKey |-> colKey,
     colText |-> colText, leafLabel |-> leafLabel, value |-> value, raw |-> raw,
     fieldRaw |-> fieldRaw, nearColor |-> nearColor, stats |-> stats]

NoStats == [min |-> Null, max |-> Null]
Stats(mn, mx) == [min |-> Num(mn), max |-> Num(mx)]

\* The ctx argument of evalCfRules / evalCfRulesForValueCell for a target.
ctxOf(t, formatProp) ==
    CASE t.target = "cell" ->
             [target |-> Str("cell"), formatProp |-> Str(formatProp),
              rowCode |-> Str(t.rowCode), rowLabel |-> Str(t.rowLabel),
              colKey |-> Str(t.colKey), colText |-> Str(t.colText),
              value |-> t.value, text |-> Undefined]
      [] t.target = "rowHeader" ->
             [target |-> Str("rowHeader"), formatProp |-> Str(formatProp),
              rowCode |-> Str(t.rowCode), rowLabel |-> Str(t.rowLabel),
              colKey |-> Undefined, colText |-> Undefined,
              value |-> Undefined, text |-> Str(t.rowLabel)]
      [] t.target = "columnHeader" ->
             [target |-> Str("columnHeader"), formatProp |-> Str(formatProp),
              rowCode |-> Undefined, rowLabel |-> Undefined,
              colKey |-> Str(t.colKey), colText |-> Str(t.colText),
              value |-> Undefined, text |-> Str(t.colText)]

basedOn(s) == trim(textOrEmpty(prop(s, "basedOnField")))

\* v == null ? (s.emptyValues === "zero" ? 0 : null) : v
orZero(s, v) ==
    IF isNullish(v) THEN (IF prop(s, "emptyValues") = Str("zero") THEN Num(0) ELSE Null)
    ELSE v

\* Array.isArray(excluded) && excluded.includes(r.code)
isExcluded(s, code) ==
    /\ isArray(optProp(s, "excludedRowCodes"))
    /\ \E i \in 1..Len(prop(s, "excludedRowCodes").vals) :
           prop(s, "excludedRowCodes").vals[i] = Str(code)

\* a || b || c on colours, "" for null
firstColor(a, b, c) == IF a # "" THEN a ELSE IF b # "" THEN b ELSE c

\* if (!color) return; otherwise paint
paintIf(el, formatProp, c) == IF c = "" THEN el ELSE paint(el, formatProp, c)

autoMin(t, v) == IF t.stats = NoStats THEN v ELSE t.stats.min
autoMax(t, v) == IF t.stats = NoStats THEN v ELSE t.stats.max

paintGradient(el, s, formatProp, t, v) ==
    IF isNullish(v) \/ ~isFinite(v) THEN el
    ELSE paint(el, formatProp, gradientColorFor(s, v, autoMin(t, v), autoMax(t, v)))

\* applySurface of a column header.
columnSurface(el, s, formatProp, t) ==
    CASE prop(s, "formatStyle") = Str("fieldValue") ->
             paintIf(el, formatProp,
                     firstColor(parseSafeCssColor(IF basedOn(s) # "" THEN t.fieldRaw ELSE Null),
                                parseSafeCssColor(Str(t.colText)), t.nearColor))
      [] prop(s, "formatStyle") = Str("gradient") ->
             paintGradient(el, s, formatProp, t, orZero(s, t.value))
      [] OTHER -> el

\* applySurface of a row header.
rowSurface(el, s, formatProp, t) ==
    CASE isExcluded(s, t.rowCode) -> el
      [] prop(s, "formatStyle") = Str("fieldValue") ->
             paintIf(el, formatProp,
                     firstColor(parseSafeCssColor(IF basedOn(s) # "" THEN t.fieldRaw ELSE Null),
                                parseSafeCssColor(Str(t.rowLabel)), t.nearColor))
      [] prop(s, "formatStyle") = Str("gradient") /\ t.stats # NoStats ->
             paintGradient(el, s, formatProp, t, orZero(s, t.value))
      [] OTHER -> el

\* getRawForBasedOn of a value cell
getRawForBasedOn(t, field) == IF trim(field) = "" THEN t.raw ELSE t.fieldRaw

finiteOrZero(s, num) == IF isFinite(num) THEN num ELSE orZero(s, Null)

\* vv of applyGradient: the cell's own value, or the number of the based-on field
gradientValue(s, t) ==
    IF basedOn(s) = "" \/ basedOn(s) = trim(t.leafLabel) THEN orZero(s, t.value)
    ELSE finiteOrZero(s, toNumber(getRawForBasedOn(t, basedOn(s))))

applyGradient(el, s, formatProp, t) ==
    CASE prop(s, "formatStyle") # Str("gradient") -> el
      [] isExcluded(s, t.rowCode) -> el
      [] basedOn(s) = "" /\ trim(t.leafLabel) = "" -> el
      [] OTHER -> paintGradient(el, s, formatProp, t, gradientValue(s, t))

applyFieldValue(el, s, formatProp, t) ==
    CASE prop(s, "formatStyle") # Str("fieldValue") -> el
      [] isExcluded(s, t.rowCode) -> el
      [] OTHER -> paintIf(el, formatProp,
                          parseSafeCssColor(getRawForBasedOn(t, textOrEmpty(prop(s, "basedOnField")))))

cellSurfaces(el, bg, font, t) ==
    applyFieldValue(applyFieldValue(applyGradient(applyGradient(el,
        bg, "background", t), font, "fontColor", t),
        bg, "background", t), font, "fontColor", t)

\* The styles one target ends with: the two rule results and the element.
Styled(bgRules, fontRules, el) == [bgRules |-> bgRules, fontRules |-> fontRules, el |-> el]

Unstyled == Styled(Null, Null, PlainEl)

ruled(bgRules, fontRules) == applyCfStyle(applyCfStyle(PlainEl, bgRules), fontRules)

styledCell(config, t, bgRules, fontRules) ==
    Styled(bgRules, fontRules,
           cellSurfaces(ruled(bgRules, fontRules),
                        getSurfaceSettings(config, "cell", "background"),
                        getSurfaceSettings(config, "cell", "fontColor"), t))

styledRowHeader(config, t, bgRules, fontRules) ==
    Styled(bgRules, fontRules,
           rowSurface(rowSurface(ruled(bgRules, fontRules),
                                 getSurfaceSettings(config, "rowHeader", "background"),
                                 "background", t),
                      getSurfaceSettings(config, "rowHeader", "fontColor"), "fontColor", t))

styledColumnHeader(config, t, bgRules, fontRules) ==
    Styled(bgRules, fontRules,
           columnSurface(columnSurface(ruled(bgRules, fontRules),
                                       getSurfaceSettings(config, "columnHeader", "background"),
                                       "background", t),
                         getSurfaceSettings(config, "columnHeader", "fontColor"),
                         "fontColor", t))

\* The if (cfEnabled) block of a column header, a row header or a value cell.
\* Icons are not modelled.
resolveStyle(enabled, config, t) ==
    CASE ~enabled -> Unstyled
      [] t.target = "cell" ->
             styledCell(config, t, evalCfRulesForValueCell(config, ctxOf(t, "background")),
                        evalCfRulesForValueCell(config, ctxOf(t, "fontColor")))
      [] t.target = "rowHeader" ->
             styledRowHeader(config, t, evalCfRules(config, ctxOf(t, "background")),
                             evalCfRules(config, ctxOf(t, "fontColor")))
      [] t.target = "columnHeader" ->
             styledColumnHeader(config, t, evalCfRules(config, ctxOf(t, "background")),
                                evalCfRules(config, ctxOf(t, "fontColor")))

\* cfEnabled ? safeParseCfConfig(cfRulesJson) : { version: 1, rules: [] }
NoRulesConfig == Obj(<<"version", "rules">>, <<Num(1), Arr(<<>>)>>)

renderConfig(enabled, json, ids) ==
    IF enabled THEN safeParseCfConfig(json, ids) ELSE NoRulesConfig

buildVars == <<layoutRows, formulas, blankAsZero, autoAggregateParents, showSubtotals,
               showGrandTotal, pc, ingestVars, valuesMap, rowVars, flatRows, pass,
               changed, historyVars>>

\* render: the styles of every target of `table`.
Render(table, ids) ==
    /\ \E config \in {renderConfig(cfEnabled, cfRulesJson, ids)} :
           /\ cfConfig' = config
           /\ painted' = [t \in table |-> resolveStyle(cfEnabled, config, t)]
    /\ UNCHANGED <<buildVars, handshakeVars, layoutJson, formulasJson, cfRulesJson, customTableJson,
                   cfEnabled, cfEditorDraft, customTableEditorDraft, saved, edits>>

\* ---------------------------------------------------------------- editors
\* ensureCfDraft, when the editor opens
OpenCfEditor(ids) ==
    /\ cfEditorDraft = Null
    /\ cfEditorDraft' = safeParseCfConfig(cfRulesJson, ids)
    /\ UNCHANGED <<buildVars, handshakeVars, layoutJson, formulasJson, cfRulesJson, customTableJson,
                   cfEnabled, customTableEditorDraft, cfConfig, painted, saved, edits>>

draftRules(draft) == prop(draft, "rules").vals

withRules(draft, rules) == putKey(draft, "rules", Arr(rules))

EditDraft(draft, max) ==
    /\ edits < max
    /\ cfEditorDraft' = draft
    /\ edits' = edits + 1
    /\ UNCHANGED <<buildVars, handshakeVars, layoutJson, formulasJson, cfRulesJson, customTableJson,
                   cfEnabled, customTableEditorDraft, cfConfig, painted, saved>>

\* getCurrentSurface of the editor view
currentSurface(draft, currentTarget, currentProp) ==
    IF currentTarget = "all" THEN RulesSurface
    ELSE getSurfaceSettings(draft, currentTarget, currentProp)

newRule(id, t, currentProp) ==
    Obj(RuleKeys,
        <<Str(id), Bool(TRUE), Str(t), Str("self"), Str(currentProp), Str("any"), Str(""),
          Str("any"), Str(""), Str(IF t = "cell" THEN "value" ELSE "text"),
          Str(IF t = "cell" THEN "gte" ELSE "contains"), Str(IF t = "cell" THEN "0" ELSE ""),
          Str(""), EmptyObj>>)

\* "+ New rule" in the view (currentTarget, currentProp), with no based-on field
AddRule(currentTarget, lastSpecificTarget, currentProp, id, max) ==
    /\ cfEditorDraft # Null
    /\ prop(currentSurface(cfEditorDraft, currentTarget, currentProp), "formatStyle")
           = Str("rules")
    /\ EditDraft(withRules(cfEditorDraft,
                           Append(draftRules(cfEditorDraft),
                                  newRule(id, IF currentTarget = "all" THEN lastSpecificTarget
                                              ELSE currentTarget, currentProp))), max)

\* rule.formatProp || currentProp in the "all" view, else currentProp
effectiveProp(rule, currentTarget, currentProp) ==
    IF currentTarget = "all" THEN orElse(prop(rule, "formatProp"), Str(currentProp)).s
    ELSE currentProp

colored(rule, effective, color) ==
    putKey(rule, "style",
           putKey(prop(rule, "style"),
                  IF effective = "background" THEN "background" ELSE "fontColor", Str(color)))

inView(rule, currentTarget, currentProp) ==
    IF currentTarget = "all" THEN rule ELSE putKey(rule, "formatProp", Str(currentProp))

\* The colour input of rule i
SetRuleColor(i, currentTarget, currentProp, color, max) ==
    /\ cfEditorDraft # Null
    /\ i \in 1..Len(draftRules(cfEditorDraft))
    /\ effectiveProp(draftRules(cfEditorDraft)[i], currentTarget, currentProp) # "icon"
    /\ EditDraft(withRules(cfEditorDraft,
                           [draftRules(cfEditorDraft) EXCEPT ![i] =
                               colored(inView(@, currentTarget, currentProp),
                                       effectiveProp(@, currentTarget, currentProp), color)]),
                 max)

GradientDefaults ==
    Obj(<<"formatStyle", "basedOnField", "emptyValues", "min", "max", "useMid", "midColor">>,
        <<Str("gradient"), Str(""), Str("blank"),
          Obj(<<"type", "color">>, <<Str("auto"), Str("#ffffff")>>),
          Obj(<<"type", "color">>, <<Str("auto"), Str("#000000")>>),
          Bool(FALSE), Str("#808080")>>)

\* The surface the "Format style" select stores, outside the icon tab.
chosenSurface(existing, v) ==
    CASE v = "rules" -> RulesSurface
      [] v = "gradient" -> IF prop(existing, "formatStyle") = Str("gradient")
                           THEN putKey(existing, "basedOnField", Str(""))
                           ELSE GradientDefaults
      [] v = "fieldValue" -> Obj(<<"formatStyle", "basedOnField">>,
                                 <<Str("fieldValue"), Str("")>>)

\* setSurfaceSettings
setSurfaceSettings(draft, target, formatProp, settings) ==
    putKey(draft, "surfaces",
           putKey(IF jsTruthy(prop(draft, "surfaces")) THEN prop(draft, "surfaces")
                  ELSE EmptyObj,
                  cfSurfaceKey(target, formatProp), settings))

\* The "Format style" select in the view (currentTarget, currentProp)
SetFormatStyle(currentTarget, currentProp, v, max) ==
    /\ cfEditorDraft # Null
    /\ currentTarget # "all"
    /\ currentProp # "icon"
    /\ EditDraft(setSurfaceSettings(cfEditorDraft, currentTarget, currentProp,
                                    chosenSurface(getSurfaceSettings(cfEditorDraft,
                                                                     currentTarget,
                                                                     currentProp), v)), max)

\* "Reverse order"
ReverseOrder(max) ==
    /\ cfEditorDraft # Null
    /\ EditDraft(withRules(cfEditorDraft, reverse(draftRules(cfEditorDraft))), max)

\* draft.rules.filter(r => r.id !== rule.id)
RECURSIVE withoutId(_, _)
withoutId(rules, id) ==
    IF Len(rules) = 0 THEN <<>>
    ELSE IF prop(Head(rules), "id") = id THEN withoutId(Tail(rules), id)
    ELSE <<Head(rules)>> \o withoutId(Tail(rules), id)

RemoveRule(i, max) ==
    /\ cfEditorDraft # Null
    /\ i \in 1..Len(draftRules(cfEditorDraft))
    /\ EditDraft(withRules(cfEditorDraft,
                           withoutId(draftRules(cfEditorDraft),
                                     prop(draftRules(cfEditorDraft)[i], "id"))), max)

\* cleanDraft of the OK handler
cleanDraft(draft, ids) ==
    CfConfig(Num(2), normalizeRules(draftRules(draft), ids, 1, <<>>),
             prop(draft, "surfaces"))

CfOk(ids) ==
    /\ cfEditorDraft # Null
    /\ \E clean0 \in {cleanDraft(cfEditorDraft, ids)} :
           /\ cfRulesJson' = JSON_stringify(clean0)
           /\ saved' = clean0
    /\ cfEditorDraft' = Null
    /\ UNCHANGED <<buildVars, handshakeVars, layoutJson, formulasJson, customTableJson, cfEnabled,
                   customTableEditorDraft, cfConfig, painted, edits>>

\* closeCfEditor
CfCancel ==
    /\ cfEditorDraft # Null
    /\ cfEditorDraft' = Null
    /\ UNCHANGED <<buildVars, handshakeVars, layoutJson, formulasJson, cfRulesJson, customTableJson,
                   cfEnabled, customTableEditorDraft, cfConfig, painted, saved, edits>>

\* ensureCustomTableDraft, when the custom-table editor opens
OpenCustomTableEditor(ids) ==
    /\ customTableEditorDraft = Null
    /\ customTableEditorDraft' = safeParseCustomTableConfig(customTableJson, ids)
    /\ UNCHANGED <<buildVars, handshakeVars, layoutJson, formulasJson, cfRulesJson, customTableJson,
                   cfEnabled, cfEditorDraft, cfConfig, painted, saved, edits>>

\* buildModel reading the layout and the formulas from the settings
ReadLayout ==
    /\ pc = "settings"
    /\ layoutRows' = parseLayoutRows(layoutJson)
    /\ formulas' = parseFormulas(formulasJson)
    /\ pc' = "records"
    /\ UNCHANGED <<blankAsZero, autoAggregateParents, showSubtotals, showGrandTotal,
                   ingestVars, valuesMap, rowVars, flatRows, pass, changed, historyVars,
                   formatVars>>

\* ---------------------------------------------------------------- configurations
Row(code, parent, type, formula) ==
    LayoutRow(Str(code), Undefined, parent, type, Undefined, formula)

NoLayout == [rows |-> <<>>, formulas |-> EmptyMap]

\* Calc rows over an internal data row; B takes its formula from the formulas map.
ChainLayout ==
    [rows |-> <<Row("B", Undefined, Str("calc"), Undefined),
                Row("A", Undefined, Str("calc"), Str("[P]"))>>,
     formulas |-> [c \in {"B"} |-> "[A] + 1"]]

\* Mutually referencing calc rows.
CycleLayout ==
    [rows |-> <<Row("A", Undefined, Str("calc"), Str("[B]+1")),
                Row("B", Undefined, Str("calc"), Str("[A]+1"))>>,
     formulas |-> EmptyMap]

\* A formula that does not parse, on a code that also receives data, next to
\* calc rows that parse.
BrokenLayout ==
    [rows |-> <<Row("P||a", Undefined, Str("calc"), Str("[Q||a]+1")),
                Row("Q||a", Undefined, Str("calc"), Str("(1")),
                Row("Y", Null, Str("calc"), Str("[P||b] * 2"))>>,
     formulas |-> EmptyMap]

\* Declared parents above and below the rows discovered from data: T over P
\* and Q under the data leaf P||a.
DeepLayout ==
    [rows |-> <<Row("T", Undefined, Undefined, Undefined),
                Row("P", Str("T"), Str("data"), Undefined),
                Row("Q", Str("P||a"), Undefined, Undefined)>>,
     formulas |-> EmptyMap]

\* Blank rows: a parent and a leaf that receives data.
BlankLayout ==
    [rows |-> <<Row("P", Undefined, Str("blank"), Undefined),
                Row("Q||a", Undefined, Str("blank"), Undefined)>>,
     formulas |-> EmptyMap]

Layouts == {NoLayout, ChainLayout, CycleLayout, BrokenLayout, DeepLayout, BlankLayout}

\* ---------------------------------------------------------------- specifications
\* No formatting state: conditional formatting off, no editor open, nothing
\* rendered.
\* No Apply and no update yet.
NoHandshake == [step |-> "none", tableJson |-> ""]

HandshakeIdle ==
    /\ customTableEnabled = FALSE
    /\ pendingCustomTableJson = Null
    /\ pendingCustomTableSetAt = 0
    /\ now = 0
    /\ lastHandshake = NoHandshake

FormatIdle ==
    /\ HandshakeIdle
    /\ layoutJson = "" /\ formulasJson = "" /\ cfRulesJson = "" /\ customTableJson = ""
    /\ cfEnabled = FALSE
    /\ cfEditorDraft = Null
    /\ customTableEditorDraft = Null
    /\ cfConfig = Null
    /\ painted = EmptyMap
    /\ saved = Undefined
    /\ edits = 0

EmptyModel ==
    /\ recordCount = 0
    /\ columns = <<>>
    /\ valuesMap = EmptyMap
    /\ valuesRawMap = EmptyMap
    /\ dataCodes = <<>>
    /\ dataLabelByCode = EmptyMap
    /\ dataParentByCode = EmptyMap
    /\ dataRowLevelByCode = EmptyMap
    /\ rowByCode = EmptyMap
    /\ rowOrder = <<>>
    /\ roots = <<>>
    /\ flatRows = <<>>
    /\ pass = 0
    /\ changed = FALSE
    /\ contributions = EmptyMap
    /\ preFormula = EmptyMap
    /\ preAggregate = EmptyMap
    /\ lastPassChanged = FALSE

InitBuild == pc = "records" /\ EmptyModel

\* A build under any layout and any setting of the four toggles.
Init ==
    /\ InitBuild
    /\ FormatIdle
    /\ \E l \in Layouts : layoutRows = l.rows /\ formulas = l.formulas
    /\ blankAsZero \in BOOLEAN
    /\ autoAggregateParents \in BOOLEAN
    /\ showSubtotals \in BOOLEAN
    /\ showGrandTotal \in BOOLEAN

Next ==
    \/ \E rec \in BuildRecords : AddRecord(rec, MaxRecords)
    \/ BuildRows
    \/ FormulaPass
    \/ AutoAggregate
    \/ Subtotals
    \/ GrandTotal

Spec == Init /\ [][Next]_vars

\* The record loop alone, under the default settings and no layout.
InitCells ==
    /\ InitBuild
    /\ FormatIdle
    /\ layoutRows = NoLayout.rows /\ formulas = NoLayout.formulas
    /\ blankAsZero = TRUE
    /\ autoAggregateParents = TRUE
    /\ showSubtotals = FALSE
    /\ showGrandTotal = FALSE

NextCells == \E rec \in CellRecords : AddRecord(rec, MaxCellRecords)

SpecCells == InitCells /\ [][NextCells]_vars

\* The row forest alone: every layout of up to MaxLayoutRows rows drawn from
\* ForestRows, over up to MaxForestRecords records, under the default settings.
\* The rows declare codes that data also discovers (P||a, P||b), explicit
\* null and unresolved parents, a two-row parent cycle, a self parent, and
\* explicit orders.
ForestRows ==
    {LayoutRow(Str("P||a"), Undefined, Undefined, Undefined, Undefined, Undefined),
     LayoutRow(Str("P||a"), Str("Lbl"), Null, Undefined, Undefined, Undefined),
     LayoutRow(Str("P||a"), Undefined, Str("X"), Undefined, Num(1), Undefined),
     LayoutRow(Str("X"), Undefined, Str("Y"), Undefined, Undefined, Undefined),
     LayoutRow(Str("Y"), Undefined, Str("X"), Undefined, Undefined, Undefined),
     LayoutRow(Str("X"), Undefined, Str("X"), Undefined, Undefined, Undefined),
     LayoutRow(Str("X"), Undefined, Str("Z"), Undefined, Num(2), Undefined),
     LayoutRow(Str("Y"), Undefined, Undefined, Undefined, Undefined, Undefined),
     LayoutRow(Str("P||b"), Undefined, Str("X"), Undefined, Num(0), Undefined)}

ForestLayouts == UNION {[1..n -> ForestRows] : n \in 0..MaxLayoutRows}

ForestRecords == {Rec(r, <<"2023">>, Null, <<Num(1)>>) : r \in {<<"P", "a">>, <<"P", "b">>}}

InitForest ==
    /\ InitBuild
    /\ FormatIdle
    /\ layoutRows \in ForestLayouts
    /\ formulas = EmptyMap
    /\ blankAsZero = TRUE
    /\ autoAggregateParents = TRUE
    /\ showSubtotals = FALSE
    /\ showGrandTotal = FALSE

NextForest ==
    \/ \E rec \in ForestRecords : AddRecord(rec, MaxForestRecords)
    \/ BuildRows

SpecForest == InitForest /\ [][NextForest]_vars

\* The column list alone: records whose column values differ by white space
\* only, or are a prefix of one another, under no layout.
ColumnRecords ==
    {Rec(r, <<c>>, Null, <<Num(1)>>) :
        r \in {<<"P", "a">>, <<"P", "b">>}, c \in {"A", "A B", " A", "B"}}

NextColumns ==
    \/ \E rec \in ColumnRecords : AddRecord(rec, MaxColumnRecords)
    \/ BuildRows

SpecColumns == InitCells /\ [][NextColumns]_vars

\* Ids cryptoId can return over one call of a parser: all different, or all
\* the same (the time-based fallback within one millisecond).
FreshIds(n) == {[i \in 1..n |-> "r_" \o natToString(i)], [i \in 1..n |-> "r_1"]}

\* Rules as a hand-written or legacy rules text gives them; members left
\* Undefined are absent from the text.
RawRule(id, enabled, target, scope, formatProp, rowMatchMode, rowMatchText,
        conditionType, operator, value1, style) ==
    Obj(<<"id", "enabled", "target", "scope", "formatProp", "rowMatchMode", "rowMatchText",
          "conditionType", "operator", "value1", "style">>,
        <<id, enabled, target, scope, formatProp, rowMatchMode, rowMatchText,
          conditionType, operator, value1, style>>)

\* Cell background: red and bold for every value.
RuleA ==
    RawRule(Str("a"), Bool(TRUE), Str("cell"), Undefined, Str("background"), Undefined,
            Undefined, Undefined, Str("gte"), Str("0"),
            Obj(<<"background", "bold">>, <<Str("#ff0000"), Bool(TRUE)>>))
\* Cell background: green on rows whose label contains "tot"; no bold.
RuleB ==
    RawRule(Str("b"), Bool(TRUE), Str("cell"), Undefined, Str("background"),
            Str("contains"), Str("Tot"), Undefined, Str("gte"), Str("0"),
            Obj(<<"background">>, <<Str("#00ff00")>>))
\* Cell background channel: bold off and a font colour, from 10 up.
RuleC ==
    RawRule(Str("c"), Bool(TRUE), Str("cell"), Undefined, Str("background"), Undefined,
            Undefined, Undefined, Str("gte"), Str("10"),
            Obj(<<"bold", "fontColor">>, <<Bool(FALSE), Str(" #0000ff ")>>))
\* A disabled cell background rule.
RuleD ==
    RawRule(Str("d"), Bool(FALSE), Str("cell"), Undefined, Str("background"), Undefined,
            Undefined, Undefined, Str("gte"), Str("0"),
            Obj(<<"background", "italic">>, <<Str("#000000"), Bool(TRUE)>>))
\* A row-header rule over the entire row, without id or formatProp.
RuleE ==
    RawRule(Undefined, Bool(TRUE), Str("rowHeader"), Str("entireRow"), Undefined, Undefined,
            Undefined, Str("text"), Str("contains"), Str("tot"),
            Obj(<<"fontColor">>, <<Str("#111111")>>))
\* A column-header background rule.
RuleF ==
    RawRule(Str("f"), Bool(TRUE), Str("columnHeader"), Undefined, Str("background"),
            Undefined, Undefined, Str("text"), Str("eq"), Str("2023"),
            Obj(<<"background", "underline">>, <<Str("#222222"), Bool(TRUE)>>))

RawRules == {RuleA, RuleB, RuleC, RuleD, RuleE, RuleF}

RuleLists == UNION {[1..n -> RawRules] : n \in 0..MaxRules}

Bound(type, value, color) ==
    Obj(<<"type", "value", "color">>, <<Str(type), value, Str(color)>>)

Gradient(min, max, emptyValues) ==
    Obj(<<"formatStyle", "basedOnField", "emptyValues", "min", "max", "useMid", "midColor">>,
        <<Str("gradient"), Str(""), Str(emptyValues), min, max, Bool(FALSE),
          Str("#808080")>>)

FieldValue(basedOnField) ==
    Obj(<<"formatStyle", "basedOnField">>, <<Str("fieldValue"), Str(basedOnField)>>)

\* Surface maps: gradients with automatic and fixed bounds, among them fixed
\* bounds without a usable number, and field-value surfaces.
SurfaceMaps ==
    {Obj(<<"cell:background">>,
         <<Gradient(Bound("auto", Undefined, "#ffffff"), Bound("auto", Undefined, "#000000"),
                    "blank")>>),
     Obj(<<"cell:background">>,
         <<Gradient(Bound("number", Str(""), "#ffffff"), Bound("auto", Undefined, "#000000"),
                    "blank")>>),
     Obj(<<"cell:background">>,
         <<Gradient(Bound("number", Undefined, "#ffffff"), Bound("number", Str("  "), "#000000"),
                    "zero")>>),
     Obj(<<"cell:background">>,
         <<Gradient(Bound("number", Str("abc"), "#ffffff"), Bound("number", Str(" 9 "), "#000000"),
                    "blank")>>),
     Obj(<<"cell:background", "cell:fontColor">>,
         <<FieldValue("Color"), FieldValue("")>>),
     Obj(<<"rowHeader:fontColor", "columnHeader:background">>,
         <<FieldValue(""),
           Gradient(Bound("auto", Undefined, "#ffffff"), Bound("number", Str(""), "#000000"),
                    "blank")>>)}

SurfaceRuleLists == {<<>>, <<RuleA>>, <<RuleE, RuleF>>}

RawConfig(version, rules, surfaces) ==
    Obj(<<"version", "rules", "surfaces">>, <<Num(version), Arr(rules), surfaces>>)

FormatTexts ==
    {JSON_stringify(RawConfig(1, rules, Undefined)) : rules \in RuleLists}
    \cup {JSON_stringify(RawConfig(2, rules, surfaces)) :
              rules \in SurfaceRuleLists, surfaces \in SurfaceMaps}

\* The table under render: rows Total (5 in 2023, 10 in 2024) and Cost (no
\* number in 2023), the row header of Total and the column header of 2023.
FormatTable ==
    {Target("cell", "Total", "Total", "2023||values||Sales", "2023 Sales", "Sales",
            Num(5), Num(5), Str("#00ff00"), "", Stats(5, 10)),
     Target("cell", "Total", "Total", "2024||values||Sales", "2024 Sales", "Sales",
            Num(10), Num(10), Undefined, "", Stats(5, 10)),
     Target("cell", "Cost", "Cost", "2023||values||Sales", "2023 Sales", "Sales",
            Null, Undefined, Undefined, "", Stats(5, 10)),
     Target("rowHeader", "Total", "Total", "", "", "", Num(15), Undefined, Null, "",
            Stats(15, 15)),
     Target("columnHeader", "", "", "2023||values||Sales", "2023", "", Num(5), Undefined,
            Undefined, "", Stats(5, 10))}

\* Rendering alone: every rule list of up to MaxRules raw rules, and the
\* surface maps over a few rule lists, with conditional formatting on or off.
InitFormat ==
    /\ InitBuild
    /\ layoutRows = NoLayout.rows /\ formulas = NoLayout.formulas
    /\ blankAsZero = TRUE
    /\ autoAggregateParents = TRUE
    /\ showSubtotals = FALSE
    /\ showGrandTotal = FALSE
    /\ layoutJson = "" /\ formulasJson = "" /\ customTableJson = ""
    /\ cfRulesJson \in FormatTexts
    /\ cfEnabled \in BOOLEAN
    /\ cfEditorDraft = Null
    /\ customTableEditorDraft = Null
    /\ HandshakeIdle
    /\ cfConfig = Null
    /\ painted = EmptyMap
    /\ saved = Undefined
    /\ edits = 0

NextFormat == \E ids \in FreshIds(MaxRules) : Render(FormatTable, ids)

SpecFormat == InitFormat /\ [][NextFormat]_vars

\* The editor alone: a few persisted texts, up to MaxEdits edits.
EditorTexts ==
    {"",
     JSON_stringify(RawConfig(1, <<RuleC, RuleE>>, Undefined)),
     JSON_stringify(RawConfig(2, <<RuleA>>,
                              Obj(<<"cell:fontColor">>, <<FieldValue("Color")>>)))}

EditorViews == {<<"all", "background">>, <<"cell", "fontColor">>, <<"rowHeader", "background">>}

InitEditor ==
    /\ InitBuild
    /\ layoutRows = NoLayout.rows /\ formulas = NoLayout.formulas
    /\ blankAsZero = TRUE
    /\ autoAggregateParents = TRUE
    /\ showSubtotals = FALSE
    /\ showGrandTotal = FALSE
    /\ layoutJson = "" /\ formulasJson = "" /\ customTableJson = ""
    /\ cfRulesJson \in EditorTexts
    /\ cfEnabled = TRUE
    /\ cfEditorDraft = Null
    /\ customTableEditorDraft = Null
    /\ HandshakeIdle
    /\ cfConfig = Null
    /\ painted = EmptyMap
    /\ saved = Undefined
    /\ edits = 0

NextEditor ==
    \/ \E ids \in FreshIds(2 + MaxEdits) : OpenCfEditor(ids)
    \/ \E view \in EditorViews, id \in {"r_8", "r_9"} :
           AddRule(view[1], "cell", view[2], id, MaxEdits)
    \/ \E i \in 1..(2 + MaxEdits), view \in EditorViews :
           SetRuleColor(i, view[1], view[2], "#abcdef", MaxEdits)
    \/ \E view \in EditorViews, v \in {"rules", "gradient", "fieldValue"} :
           SetFormatStyle(view[1], view[2], v, MaxEdits)
    \/ ReverseOrder(MaxEdits)
    \/ \E i \in 1..(2 + MaxEdits) : RemoveRule(i, MaxEdits)
    \/ \E ids \in FreshIds(2 + MaxEdits) : CfOk(ids)
    \/ CfCancel

SpecEditor == InitEditor /\ [][NextEditor]_vars

\* The settings texts: texts that are not JSON, and one or two that are.
InvalidJson == {"", " ", "{\"rows\":[", "nope", "{'a':1}"}

LayoutTexts ==
    InvalidJson \cup {"[{\"code\":\"T\"},{\"code\":\"P\",\"parent\":\"T\"}]",
                      "{\"rows\":[{\"code\":\"C\",\"type\":\"calc\"}]}"}
FormulaTexts == InvalidJson \cup {"{\"C\":\"[P] + 1\"}"}
RulesTexts == InvalidJson \cup {JSON_stringify(RawConfig(2, <<RuleA>>, Undefined))}
CustomTableTexts ==
    InvalidJson
    \cup {"{\"version\":1,\"parents\":[{\"parentNo\":\"1\",\"parentName\":\"Assets\"}],\"children\":[{\"setParentNo\":\"1\",\"childName\":\"Cash\",\"values\":[{\"field\":\"Sales\",\"aggregation\":\"SUM\"}]}]}"}

ConfigRecords == {Rec(<<"P", "a">>, <<"2023">>, Null, <<Num(1)>>)}

ConfigTable == {Target("cell", "P||a", "a", "2023||values||Sales", "2023 Sales", "Sales",
                       Num(1), Num(1), Undefined, "", Stats(1, 1))}

InitConfig ==
    /\ pc = "settings"
    /\ EmptyModel
    /\ layoutRows = <<>> /\ formulas = EmptyMap
    /\ blankAsZero = TRUE
    /\ autoAggregateParents = TRUE
    /\ showSubtotals = FALSE
    /\ showGrandTotal = FALSE
    /\ layoutJson \in LayoutTexts
    /\ formulasJson \in FormulaTexts
    /\ cfRulesJson \in RulesTexts
    /\ customTableJson \in CustomTableTexts
    /\ cfEnabled = TRUE
    /\ cfEditorDraft = Null
    /\ customTableEditorDraft = Null
    /\ HandshakeIdle
    /\ cfConfig = Null
    /\ painted = EmptyMap
    /\ saved = Undefined
    /\ edits = 0

NextConfig ==
    \/ ReadLayout
    \/ \E rec \in ConfigRecords : AddRecord(rec, MaxConfigRecords)
    \/ BuildRows
    \/ \E ids \in FreshIds(2) : Render(ConfigTable, ids)
    \/ \E ids \in FreshIds(2) : OpenCustomTableEditor(ids)

SpecConfig == InitConfig /\ [][NextConfig]_vars


\* ---------------------------------------------------------------- properties
\* Helpers of the properties below.
Cells == DOMAIN contributions
numericAt(seq, i) == isFinite(toNumber(seq[i]))
HasNumeric(seq) == \E i \in 1..Len(seq) : numericAt(seq, i)

RECURSIVE SumNumeric(_)
SumNumeric(seq) ==
    IF Len(seq) = 0 THEN 0
    ELSE (IF numericAt(seq, 1) THEN toNumber(seq[1]).n ELSE 0) + SumNumeric(Tail(seq))

RECURSIVE SumOver(_, _)
SumOver(S, f) ==
    IF S = {} THEN 0
    ELSE LET x == CHOOSE y \in S : TRUE IN f[x] + SumOver(S \ {x}, f)

\* The total of the non-null cells of the listed rows in one column: their
\* sum, or the blank value when none has a value.
ExpectedTotal(vm, codes, colKey) ==
    LET present == {i \in 1..Len(codes) : ~isNullish(get2(vm, codes[i], colKey))} IN
    IF present = {} THEN (IF blankAsZero THEN Num(0) ELSE Null)
    ELSE Num(SumOver(present, [i \in present |-> vm[codes[i]][colKey].n]))

ColKeys == {columns[j].key : j \in 1..Len(columns)}
FlatIdx == 1..Len(flatRows)

\* C1: while records are consumed, the value of every cell that received
\* contributions is the sum of its numeric contributions (null when it
\* received none that is numeric); nothing is overwritten or averaged.
C1_CellIsSumOfContributions ==
    pc = "records" =>
        \A k \in Cells :
            /\ has2(valuesMap, k[1], k[2])
            /\ valuesMap[k[1]][k[2]] =
                  IF HasNumeric(contributions[k]) THEN Num(SumNumeric(contributions[k]))
                  ELSE Null

C1_Witness ==
    \E k \in Cells :
        /\ contributions[k] = <<Num(5), Num(3)>>
        /\ get2(valuesMap, k[1], k[2]) = Num(8)

\* C2: a non-numeric contribution to a cell that has an entry leaves the
\* cell's value as it was, and creates a null entry only for a cell without
\* one; a cell that has received a numeric contribution is never null.
C2_NumericNeverReverts ==
    [][pc = "records" /\ pc' = "records" =>
        \A k \in DOMAIN contributions' :
            LET old == IF k \in Cells THEN contributions[k] ELSE <<>>
                new == contributions'[k]
                blankAdded == Len(new) = Len(old) + 1 /\ ~numericAt(new, Len(new))
            IN  /\ HasNumeric(new) => ~isNullish(get2(valuesMap', k[1], k[2]))
                /\ blankAdded /\ has2(valuesMap, k[1], k[2]) =>
                       valuesMap'[k[1]][k[2]] = valuesMap[k[1]][k[2]]
                /\ blankAdded /\ ~has2(valuesMap, k[1], k[2]) =>
                       has2(valuesMap', k[1], k[2]) /\ valuesMap'[k[1]][k[2]] = Null]_vars

C2_Witness ==
    \E k \in Cells :
        /\ contributions[k] = <<Num(5), Str("x")>>
        /\ get2(valuesMap, k[1], k[2]) = Num(5)

\* C3 as claimed: the raw entry of a cell is the raw value of its latest
\* contribution.
C3_RawIsLatestContribution ==
    pc = "records" =>
        \A k \in Cells :
            get2(valuesRawMap, k[1], k[2]) = contributions[k][Len(contributions[k])]

\* C3 as the code has it: the raw entry of a cell is the running sum of its
\* numeric contributions once one has arrived, and the raw value of its first
\* contribution until then; a later non-numeric contribution never replaces it.
C3_RawIsSumOrFirstContribution ==
    pc = "records" =>
        \A k \in Cells :
            /\ has2(valuesRawMap, k[1], k[2])
            /\ valuesRawMap[k[1]][k[2]] =
                  IF HasNumeric(contributions[k]) THEN Num(SumNumeric(contributions[k]))
                  ELSE contributions[k][1]

C3_Witness ==
    \E k \in Cells :
        /\ contributions[k] = <<Str("x"), Num(5), Null>>
        /\ get2(valuesRawMap, k[1], k[2]) = Num(5)

\* The rows auto-aggregation fills: rows of the forest with children that
\* are neither blank nor calc.
IsAggregated(r) == ~r.isTotal /\ Len(r.children) > 0 /\ r.type \notin {"blank", "calc"}

AfterAggregation == pc \in {"subtotals", "grandTotal", "done"}

\* C4: with autoAggregateParents on, after the pass every cell of every
\* internal data row of the forest keeps the value it had before the pass when
\* that was not null, and otherwise holds the total of the non-null values its
\* direct children have after the pass (null, or 0 under blankAsZero, when
\* none has one).
C4_ParentsAggregateChildren ==
    AfterAggregation /\ autoAggregateParents =>
        \A i \in FlatIdx : IsAggregated(flatRows[i]) =>
            \A c \in ColKeys :
                LET before == get2(preAggregate, flatRows[i].code, c) IN
                valuesMap[flatRows[i].code][c] =
                    IF ~isNullish(before) THEN before
                    ELSE ExpectedTotal(valuesMap, flatRows[i].children, c)

\* An explicit parent value that differs from its children's total is kept,
\* and a grandparent is filled from a parent that was itself filled.
C4_Witness ==
    /\ pc = "subtotals" /\ autoAggregateParents
    /\ \E i \in FlatIdx, c \in ColKeys :
          /\ IsAggregated(flatRows[i])
          /\ ~isNullish(get2(preAggregate, flatRows[i].code, c))
          /\ valuesMap[flatRows[i].code][c] # ExpectedTotal(valuesMap, flatRows[i].children, c)
    /\ \E i, j \in FlatIdx, c \in ColKeys :
          /\ IsAggregated(flatRows[i]) /\ IsAggregated(flatRows[j])
          /\ \E n \in 1..Len(flatRows[i].children) : flatRows[i].children[n] = flatRows[j].code
          /\ isNullish(get2(preAggregate, flatRows[i].code, c))
          /\ isNullish(get2(preAggregate, flatRows[j].code, c))
          /\ ~isNullish(valuesMap[flatRows[j].code][c])
          /\ valuesMap[flatRows[i].code][c].n > 0

\* The calc rows whose formula is a bare reference to an internal data row.
RefsInternalDataRow(code) ==
    /\ rowByCode[code].type = "calc" /\ truthy(rowByCode[code].formula)
    /\ LET ast == parse(rowByCode[code].formula.s) IN
       /\ ast.type = "ref"
       /\ has(rowByCode, ast.value)
       /\ rowByCode[ast.value].type = "data"
       /\ Len(rowByCode[ast.value].children) > 0

\* C5: the formula loop runs after auto-aggregation, so in the finished model
\* a calc row whose formula is `[P]`, P an internal data row, holds in every
\* column the value P has after auto-aggregation.
C5_FormulasSeeAggregatedParents ==
    pc = "done" /\ autoAggregateParents =>
        \A code \in DOMAIN rowByCode : RefsInternalDataRow(code) =>
            \A c \in ColKeys :
                valuesMap[code][c] =
                    storedValue(getCell(valuesMap, parse(rowByCode[code].formula.s).value, c))

\* The subtotal rows of the flattened list and the row each one totals.
IsSubtotalRow(r) == r.isTotal /\ r.code # gtCode
HasOwner(r) == \E code \in DOMAIN rowByCode : subtotalCode(code) = r.code
OwnerOf(r) == CHOOSE code \in DOMAIN rowByCode : subtotalCode(code) = r.code

AfterSubtotals == pc \in {"grandTotal", "done"}

\* C6: with subtotals on, the value of subtotal row `P||__subtotal` in each
\* column is the total of the non-null values of P's direct children (null,
\* or 0 under blankAsZero, when none has a value).
C6_SubtotalSumsDirectChildren ==
    AfterSubtotals /\ showSubtotals =>
        \A i \in FlatIdx : IsSubtotalRow(flatRows[i]) =>
            /\ HasOwner(flatRows[i])
            /\ \A c \in ColKeys :
                  /\ has2(valuesMap, flatRows[i].code, c)
                  /\ valuesMap[flatRows[i].code][c] =
                        ExpectedTotal(valuesMap, rowByCode[OwnerOf(flatRows[i])].children, c)

\* A subtotal over a child that was itself filled from its own children: the
\* grandchildren's values are in the subtotal once.
C6_Witness ==
    /\ AfterSubtotals /\ showSubtotals /\ autoAggregateParents
    /\ \E i \in FlatIdx, c \in ColKeys :
          /\ IsSubtotalRow(flatRows[i])
          /\ LET kids == rowByCode[OwnerOf(flatRows[i])].children IN
             /\ Len(kids) = 1
             /\ Len(rowByCode[kids[1]].children) = 2
             /\ \A n \in 1..2 : ~isNullish(get2(valuesMap, rowByCode[kids[1]].children[n], c))
             /\ valuesMap[flatRows[i].code][c] = valuesMap[kids[1]][c]
             /\ valuesMap[flatRows[i].code][c].n >= 2

\* code is below anc in the forest (following resolved parents).
RECURSIVE IsBelow(_, _, _)
IsBelow(code, anc, fuel) ==
    /\ fuel > 0
    /\ has(rowByCode, code)
    /\ resolvedParent(rowByCode, rowByCode[code])
    /\ \/ rowByCode[code].parent.s = anc
       \/ IsBelow(rowByCode[code].parent.s, anc, fuel - 1)

Below(code, anc) == IsBelow(code, anc, Cardinality(DOMAIN rowByCode))

\* The position of the (non-total) row of a code in the flattened list.
PosOf(code) == CHOOSE k \in FlatIdx : flatRows[k].code = code /\ ~flatRows[k].isTotal

\* C7: with subtotals on, the subtotal row of P follows P in the flattened
\* list, everything between P and it is a descendant of P or a descendant's
\* subtotal row, every descendant of P lies between them, and no children
\* list holds a subtotal code.
C7_SubtotalFollowsSubtree ==
    AfterSubtotals /\ showSubtotals =>
        /\ \A i \in FlatIdx : IsSubtotalRow(flatRows[i]) =>
              /\ HasOwner(flatRows[i])
              /\ LET p == OwnerOf(flatRows[i]) IN
                 /\ \E k \in FlatIdx : flatRows[k].code = p /\ ~flatRows[k].isTotal
                 /\ PosOf(p) < i
                 /\ \A j \in FlatIdx : PosOf(p) < j /\ j < i =>
                        IF IsSubtotalRow(flatRows[j])
                        THEN HasOwner(flatRows[j]) /\ Below(OwnerOf(flatRows[j]), p)
                        ELSE Below(flatRows[j].code, p)
                 /\ \A j \in FlatIdx : ~flatRows[j].isTotal /\ Below(flatRows[j].code, p) =>
                        PosOf(p) < j /\ j < i
        /\ \A code \in DOMAIN rowByCode : \A n \in 1..Len(rowByCode[code].children) :
              \A q \in DOMAIN rowByCode : rowByCode[code].children[n] # subtotalCode(q)

\* A subtotal row that closes a subtree holding a nested subtotal row, with a
\* row outside the subtree after it.
C7_Witness ==
    /\ AfterSubtotals /\ showSubtotals
    /\ \E i, j \in FlatIdx :
          /\ IsSubtotalRow(flatRows[i]) /\ IsSubtotalRow(flatRows[j])
          /\ j < i
          /\ Below(OwnerOf(flatRows[j]), OwnerOf(flatRows[i]))
          /\ i < Len(flatRows)
          /\ ~flatRows[i + 1].isTotal

\* The rows of the flattened list without children that are not totals.
LeafRows == {i \in FlatIdx : Len(flatRows[i].children) = 0 /\ ~flatRows[i].isTotal}

SumOfRows(idx, c) ==
    LET present == {i \in idx : ~isNullish(get2(valuesMap, flatRows[i].code, c))} IN
    IF present = {} THEN (IF blankAsZero THEN Num(0) ELSE Null)
    ELSE Num(SumOver(present, [i \in present |-> valuesMap[flatRows[i].code][c].n]))

\* C8 as claimed: the grand total of a column is the total of the non-null
\* values of all rows of the flattened list that have no children and are not
\* total rows.
C8_GrandTotalSumsAllLeaves ==
    pc = "done" /\ showGrandTotal =>
        \A c \in ColKeys : get2(valuesMap, gtCode, c) = SumOfRows(LeafRows, c)

\* C8 as the code has it: rows of type blank are left out as well.
C8_GrandTotalSumsNonBlankLeaves ==
    pc = "done" /\ showGrandTotal =>
        /\ flatRows[Len(flatRows)].code = gtCode
        /\ \A c \in ColKeys :
              /\ has2(valuesMap, gtCode, c)
              /\ valuesMap[gtCode][c] =
                    SumOfRows({i \in LeafRows : flatRows[i].type # "blank"}, c)

\* A grand total next to a parent row and a subtotal row that hold values.
C8_Witness ==
    /\ pc = "done" /\ showGrandTotal /\ showSubtotals
    /\ \E c \in ColKeys, i, j \in FlatIdx :
          /\ ~isNullish(get2(valuesMap, gtCode, c))
          /\ valuesMap[gtCode][c].n >= 2
          /\ IsAggregated(flatRows[i]) /\ ~isNullish(get2(valuesMap, flatRows[i].code, c))
          /\ IsSubtotalRow(flatRows[j]) /\ ~isNullish(get2(valuesMap, flatRows[j].code, c))
          /\ Cardinality({k \in LeafRows : ~isNullish(get2(valuesMap, flatRows[k].code, c))}) = 2

\* C9: the formula loop runs at most MaxPasses passes, goes on only after a
\* pass that changed a calc cell, and when it ends before the cap no calc
\* cell changed in its last pass.
C9_LoopEndsAtFirstQuietPass ==
    /\ pass <= MaxPasses
    /\ pc = "formulas" /\ pass >= 1 => lastPassChanged
    /\ pc \notin {"records", "formulas"} /\ pass < MaxPasses => ~lastPassChanged

\* The calc rows with a formula, split by whether the formula parses.
IsCalc(code) == rowByCode[code].type = "calc" /\ truthy(rowByCode[code].formula)
AstOf(code) == parse(rowByCode[code].formula.s)

\* The rows an AST made of literals, references and operators refers to.
RECURSIVE RefsOf(_)
RefsOf(ast) ==
    CASE ast.type = "ref" -> {ast.value}
      [] ast.type = "un" -> RefsOf(ast.expr)
      [] ast.type = "bin" -> RefsOf(ast.left) \cup RefsOf(ast.right)
      [] OTHER -> {}

RECURSIVE HasCall(_)
HasCall(ast) ==
    CASE ast.type = "call" -> TRUE
      [] ast.type = "un" -> HasCall(ast.expr)
      [] ast.type = "bin" -> HasCall(ast.left) \/ HasCall(ast.right)
      [] OTHER -> FALSE

\* A calc row whose formula reads no calc row: its inputs are the same in
\* every pass.
ReadsDataOnly(code) ==
    /\ AstOf(code) # NoAst /\ ~HasCall(AstOf(code))
    /\ \A ref \in RefsOf(AstOf(code)) : ~(has(rowByCode, ref) /\ rowByCode[ref].type = "calc")

\* C10: in the finished model every column cell of a calc row whose formula
\* does not parse is null, also under blankAsZero, and a calc row that parses
\* holds the result of its own formula (checked for the rows whose formula
\* reads data rows only).
C10_BrokenFormulaIsNullAndIsolated ==
    pc = "done" =>
        \A code \in DOMAIN rowByCode : IsCalc(code) =>
            \A c \in ColKeys :
                /\ AstOf(code) = NoAst =>
                      has2(valuesMap, code, c) /\ valuesMap[code][c] = Null
                /\ ReadsDataOnly(code) =>
                      valuesMap[code][c] =
                          storedValue(evalAst(AstOf(code), c, preFormula, rowByCode))

C10_Witness ==
    /\ pc = "done" /\ blankAsZero
    /\ \E bad, good \in DOMAIN rowByCode, c \in ColKeys :
          /\ IsCalc(bad) /\ AstOf(bad) = NoAst
          /\ ~isNullish(get2(preFormula, bad, c))
          /\ valuesMap[bad][c] = Null
          /\ IsCalc(good) /\ ReadsDataOnly(good)
          /\ valuesMap[good][c] = Num(4)

\* ---------------------------------------------------------------- row forest properties
\* The forest is built once BuildRows has run.
ForestBuilt == pc # "records"

LayoutCodes == {trim(layoutRows[i].code.s) : i \in 1..Len(layoutRows)}
LastDeclIndex(code) ==
    CHOOSE i \in 1..Len(layoutRows) :
        /\ trim(layoutRows[i].code.s) = code
        /\ \A j \in (i + 1)..Len(layoutRows) : trim(layoutRows[j].code.s) # code
\* The layout row that declares a code (the last one, when it is repeated).
DeclOf(code) == layoutRows[LastDeclIndex(code)]
DeclaredParent(d) == IF truthy(d.parent) THEN Str(trim(d.parent.s)) ELSE Null
DeclaredAndDiscovered(code) == code \in LayoutCodes /\ has(dataLabelByCode, code)

\* C11: a code both declared in the layout and discovered from data keeps the
\* layout's parent whenever the layout row declares one, an explicit null
\* (root) included, and the layout's label whenever the layout row declares one.
C11_LayoutWinsOverDiscovery ==
    ForestBuilt =>
        \A code \in DOMAIN rowByCode :
            DeclaredAndDiscovered(code) =>
                /\ DeclOf(code).parent.t # "undef" =>
                       rowByCode[code].parent = DeclaredParent(DeclOf(code))
                /\ truthy(DeclOf(code).label) =>
                       rowByCode[code].label = trim(DeclOf(code).label.s)

IsRootCode(code) == \E i \in 1..Len(roots) : roots[i] = code

\* Following parent links from a code reaches a root within fuel steps.
RECURSIVE ReachesRoot(_, _)
ReachesRoot(code, fuel) ==
    IF IsRootCode(code) THEN TRUE
    ELSE IF fuel = 0 \/ ~has(rowByCode, code) THEN FALSE
    ELSE IF ~truthy(rowByCode[code].parent) THEN FALSE
    ELSE ReachesRoot(rowByCode[code].parent.s, fuel - 1)

\* C12: the row nodes form a forest: from every node the parent links reach
\* a root in finitely many steps, for every layout, also one with a parent
\* cycle or a row that is its own parent.
C12_RowsFormForest ==
    ForestBuilt =>
        \A code \in DOMAIN rowByCode : ReachesRoot(code, Cardinality(DOMAIN rowByCode))

IsChildOfSomeRow(code) ==
    \E p \in DOMAIN rowByCode :
        \E i \in 1..Len(rowByCode[p].children) : rowByCode[p].children[i] = code

UnresolvedParent(code) ==
    /\ code \in LayoutCodes
    /\ truthy(rowByCode[code].parent)
    /\ ~has(rowByCode, rowByCode[code].parent.s)

\* C13: a layout row whose declared parent matches no row node is in the
\* flattened list as a root at depth 0 and is a child of no node.
C13_UnresolvedParentIsRoot ==
    ForestBuilt =>
        \A code \in DOMAIN rowByCode :
            UnresolvedParent(code) =>
                /\ IsRootCode(code)
                /\ \E i \in 1..Len(flatRows) : flatRows[i].code = code /\ flatRows[i].depth = 0
                /\ ~IsChildOfSomeRow(code)

C13_Witness ==
    /\ ForestBuilt
    /\ \E code \in DOMAIN rowByCode : UnresolvedParent(code)
    /\ Len(flatRows) >= 3

\* Two rows of the flattened list are siblings when they are both roots or
\* children of the same node.
Siblings(ra, rb) ==
    /\ ra.depth = rb.depth
    /\ ra.depth = 0 \/ ra.parent = rb.parent

\* The position of the declaration a row node was built from: layout rows in
\* list order, a repeated code counting at its last occurrence, then the
\* codes discovered from data only, in first-seen order.
DeclaredPosition(code) ==
    IF code \in LayoutCodes THEN LastDeclIndex(code) - 1
    ELSE Len(layoutRows)
         + Cardinality({j \in 1..Len(dataCodes) :
                          /\ dataCodes[j] \notin LayoutCodes
                          /\ \E k \in (j + 1)..Len(dataCodes) : dataCodes[k] = code})

\* The position at which a code was first seen: layout rows in list order,
\* then the codes discovered from data.
FirstSeenPosition(code) == (CHOOSE i \in 1..Len(rowOrder) : rowOrder[i] = code) - 1

DeclaredKey(r) == IF r.order.t = "num" THEN r.order.n ELSE DeclaredPosition(r.code)
FirstSeenKey(r) == IF r.order.t = "num" THEN r.order.n ELSE FirstSeenPosition(r.code)

SiblingsOrderedBy(Key(_)) ==
    \A i \in 1..Len(flatRows) : \A j \in (i + 1)..Len(flatRows) :
        Siblings(flatRows[i], flatRows[j]) =>
            \/ Key(flatRows[i]) < Key(flatRows[j])
            \/ /\ Key(flatRows[i]) = Key(flatRows[j])
               /\ localeCompare(flatRows[i].label, flatRows[j].label) <= 0

\* C14 as stated: siblings and roots are emitted by explicit order where
\* declared, otherwise by first-seen position, ties broken by label.
C14_SiblingsByOrderThenFirstSeen == ForestBuilt => SiblingsOrderedBy(FirstSeenKey)

\* C14: siblings and roots are emitted by explicit order where declared,
\* otherwise by the position of the declaration the node was built from (for
\* a code the layout repeats, its last occurrence), ties broken by label.
C14_SiblingsByOrderThenDeclaredPosition == ForestBuilt => SiblingsOrderedBy(DeclaredKey)

\* Siblings with explicit orders emitted against their discovery order, next
\* to a sibling without explicit order.
C14_Witness ==
    /\ ForestBuilt
    /\ \E i \in 1..Len(flatRows) : \E j \in (i + 1)..Len(flatRows) :
           /\ Siblings(flatRows[i], flatRows[j])
           /\ flatRows[i].order.t = "num" /\ flatRows[j].order.t = "num"
           /\ flatRows[i].order.n < flatRows[j].order.n
           /\ flatRows[i].orderIndex > flatRows[j].orderIndex
    /\ \E i \in 1..Len(flatRows) : \E j \in (i + 1)..Len(flatRows) :
           /\ Siblings(flatRows[i], flatRows[j])
           /\ flatRows[i].order.t # "num" /\ flatRows[j].order.t = "num"

\* ---------------------------------------------------------------- column properties
\* a's column levels compare before, or equal to, b's, level by level.
ColumnLevelsCompare(a, b) == compareLevels(a.columnLevels, b.columnLevels, 1)

\* C15: the finalized column list has no two entries with the same key and
\* is sorted lexicographically by (columnLevels, leafLabel).
C15_ColumnsUniqueAndSortedByLevels ==
    ForestBuilt =>
        /\ \A i \in 1..Len(columns) : \A j \in (i + 1)..Len(columns) :
               columns[i].key # columns[j].key
        /\ \A i \in 1..Len(columns) : \A j \in (i + 1)..Len(columns) :
               \/ ColumnLevelsCompare(columns[i], columns[j]) < 0
               \/ /\ ColumnLevelsCompare(columns[i], columns[j]) = 0
                  /\ localeCompare(columns[i].leafLabel, columns[j].leafLabel) <= 0

\* ---------------------------------------------------------------- formatting properties
StyleProps == {"fontColor", "background", "iconName", "bold", "italic", "underline"}

Channels == {"background", "fontColor"}

\* The rule result render keeps for a channel of a target.
ruleResult(st, ch) == IF ch = "background" THEN st.bgRules ELSE st.fontRules

\* Does the evaluator of the target's kind let the rule through.
applies(rule, t, ch) ==
    IF t.target = "cell" THEN cellRuleApplies(rule, ctxOf(t, ch))
    ELSE ruleApplies(rule, ctxOf(t, ch))

\* The positions of the rules that match t on channel ch and define k.
defining(rules, t, ch, k) ==
    {i \in 1..Len(rules) : applies(rules[i], t, ch) /\ hasOwn(prop(rules[i], "style"), k)}

lastOf(S) == CHOOSE i \in S : \A j \in S : j <= i

lastWriteWins(rules, t, ch, out) ==
    /\ (out = Null) <=> (\A i \in 1..Len(rules) : ~applies(rules[i], t, ch))
    /\ out # Null =>
           \A k \in StyleProps :
               IF defining(rules, t, ch, k) = {} THEN ~hasOwn(out, k)
               ELSE /\ hasOwn(out, k)
                    /\ prop(out, k)
                           = prop(prop(rules[lastOf(defining(rules, t, ch, k))], "style"), k)

\* C16: the style the rules of one channel resolve to for a target is
\* last-write-wins per property: each style property has the value of the
\* last matching enabled rule that defines it, a property no matching rule
\* defines is absent, and there is no style at all exactly when no enabled
\* rule of the channel matches.
C16_LastWriteWinsPerProperty ==
    cfEnabled =>
        \A t \in DOMAIN painted : \A ch \in Channels :
            lastWriteWins(prop(cfConfig, "rules").vals, t, ch, ruleResult(painted[t], ch))

\* Two rules match one cell on the background channel, next to a rule that
\* does not: the later one sets the background, the bold of the earlier one
\* stays.
overwrites(rules, t, out) ==
    /\ Len(rules) = 2
    /\ applies(rules[1], t, "background") /\ applies(rules[2], t, "background")
    /\ hasOwn(prop(rules[1], "style"), "bold")
    /\ ~hasOwn(prop(rules[2], "style"), "bold")
    /\ prop(prop(rules[1], "style"), "background") # prop(prop(rules[2], "style"), "background")
    /\ prop(out, "background") = prop(prop(rules[2], "style"), "background")
    /\ prop(out, "bold") = Bool(TRUE)

C16_Witness ==
    /\ cfEnabled
    /\ \E t \in DOMAIN painted : overwrites(prop(cfConfig, "rules").vals, t, painted[t].bgRules)
    /\ \E t \in DOMAIN painted : painted[t].bgRules = Null

\* Is the surface of (target, channel) a gradient or a field value.
surfaceDriven(config, target, ch) ==
    prop(getSurfaceSettings(config, target, ch), "formatStyle")
        \in {Str("gradient"), Str("fieldValue")}

ruleChannel(rule) == orElse(prop(rule, "formatProp"), Str("background")).s

\* The rules left when those of the surface-driven channels of `target` are
\* taken out of the list.
RECURSIVE consulted(_, _, _, _)
consulted(config, target, rules, i) ==
    IF i > Len(rules) THEN <<>>
    ELSE (IF ruleChannel(rules[i]) \in Channels
             /\ surfaceDriven(config, target, ruleChannel(rules[i]))
          THEN <<>> ELSE <<rules[i]>>)
         \o consulted(config, target, rules, i + 1)

withoutDrivenRules(config, target) ==
    withRules(config, consulted(config, target, prop(config, "rules").vals, 1))

\* C17: where the surface of a (target, channel) pair is a gradient or a
\* field value, the rules of that channel contribute nothing: every header
\* and cell is styled as it would be with those rules taken out of the list.
C17_SurfaceChannelIgnoresRules ==
    cfEnabled =>
        \A t \in DOMAIN painted :
            painted[t].el = resolveStyle(TRUE, withoutDrivenRules(cfConfig, t.target), t).el

\* A bound of type number whose text is missing, empty, whitespace or not a
\* finite number.
unresolvable(b) ==
    /\ prop(b, "type") = Str("number")
    /\ \/ isNullish(prop(b, "value"))
       \/ trim(prop(b, "value").s) = ""
       \/ ~isFinite(NumberOfString(trim(prop(b, "value").s)))

asAuto(b) == IF unresolvable(b) THEN putKey(b, "type", Str("auto")) ELSE b

autoWhereUnresolvable(s) ==
    IF optProp(s, "formatStyle") = Str("gradient")
    THEN putKey(putKey(s, "min", asAuto(prop(s, "min"))), "max", asAuto(prop(s, "max")))
    ELSE s

\* The config with every unresolvable fixed bound of a gradient made automatic.
withAutoBounds(config) ==
    IF jsTruthy(prop(config, "surfaces"))
    THEN putKey(config, "surfaces",
                Obj(prop(config, "surfaces").keys,
                    [i \in DOMAIN prop(config, "surfaces").vals |->
                        autoWhereUnresolvable(prop(config, "surfaces").vals[i])]))
    ELSE config

\* C18: a gradient bound of type number whose text is missing, empty,
\* whitespace or not a finite number stands for the automatic bound: every
\* header and cell is coloured as it would be with that bound set to auto.
C18_UnresolvableBoundIsAuto ==
    cfEnabled =>
        \A t \in DOMAIN painted :
            painted[t].el = resolveStyle(TRUE, withAutoBounds(cfConfig), t).el

\* ---------------------------------------------------------------- configuration properties
\* A row built from data alone: no layout row gave it a type, an order or a
\* formula.
fromDataOnly(node) ==
    /\ node.type = "data"
    /\ node.order = Undefined
    /\ node.formula = Undefined
    /\ \E i \in 1..Len(dataCodes) : dataCodes[i] = node.code

\* C19: a settings text that is not valid JSON gives the empty or default
\* configuration in each of the four parsers (no layout rows, no formulas,
\* rules config of version 1 without rules or surfaces, custom table of
\* version 1 without parents or children), and the rows are then built from
\* the data alone.
C19_MalformedConfigDegrades ==
    /\ (pc # "settings" /\ layoutJson \in InvalidJson) => layoutRows = <<>>
    /\ (pc # "settings" /\ formulasJson \in InvalidJson) => formulas = EmptyMap
    /\ (cfConfig # Null /\ cfRulesJson \in InvalidJson) =>
           /\ cfConfig.keys = <<"version", "rules", "surfaces">>
           /\ prop(cfConfig, "version") = Num(1)
           /\ prop(cfConfig, "rules") = Arr(<<>>)
           /\ prop(cfConfig, "surfaces") = Undefined
    /\ (customTableEditorDraft # Null /\ customTableJson \in InvalidJson) =>
           /\ customTableEditorDraft.keys = <<"version", "parents", "children">>
           /\ prop(customTableEditorDraft, "version") = Num(1)
           /\ prop(customTableEditorDraft, "parents") = Arr(<<>>)
           /\ prop(customTableEditorDraft, "children") = Arr(<<>>)
    /\ (pc = "formulas" /\ layoutJson \in InvalidJson /\ formulasJson \in InvalidJson) =>
           /\ Len(flatRows) = Len(dataCodes)
           /\ \A i \in 1..Len(flatRows) : fromDataOnly(flatRows[i])

\* All four texts are malformed (none of them empty), every parser has run
\* and rows were built from a record.
C19_Witness ==
    /\ pc = "formulas"
    /\ {layoutJson, formulasJson, cfRulesJson, customTableJson} \subseteq InvalidJson \ {"", " "}
    /\ cfConfig # Null
    /\ customTableEditorDraft # Null
    /\ Len(flatRows) >= 2

\* ---------------------------------------------------------------- round-trip properties
RuleFields == {RuleKeys[j] : j \in 1..Len(RuleKeys)} \ {"style"}

sameStyle(sa, sb) ==
    \A k \in StyleProps : (hasOwn(sa, k) <=> hasOwn(sb, k)) /\ optProp(sa, k) = optProp(sb, k)

sameRule(ra, rb) ==
    /\ \A k \in RuleFields : hasOwn(ra, k) /\ hasOwn(rb, k) /\ prop(ra, k) = prop(rb, k)
    /\ sameStyle(prop(ra, "style"), prop(rb, "style"))

\* The same version, the same rules in the same order and the same surfaces.
sameConfig(a, b) ==
    /\ prop(a, "version") = prop(b, "version")
    /\ Len(draftRules(a)) = Len(draftRules(b))
    /\ \A i \in 1..Len(draftRules(a)) : sameRule(draftRules(a)[i], draftRules(b)[i])
    /\ prop(a, "surfaces") = prop(b, "surfaces")

\* C20: the rules text the editor's OK writes parses back to the config it
\* was written from (the same rules in the same order with the same ids and
\* field values, the same surfaces, style properties absent before still
\* absent), whatever ids the parser would hand out, and normalizing a rule of
\* that config again changes nothing.
C20_RoundTripAndIdempotence ==
    saved # Undefined =>
        /\ \A ids \in FreshIds(2 + MaxEdits) :
               \A parsed \in {safeParseCfConfig(cfRulesJson, ids)} : sameConfig(saved, parsed)
        /\ \A i \in 1..Len(draftRules(saved)) :
               normalizeCfRule(draftRules(saved)[i], "r_0") = draftRules(saved)[i]

\* A saved config with two rules, one with and one without a bold property,
\* and a surface map, written after an edit.
C20_Witness ==
    /\ saved # Undefined
    /\ cfEditorDraft = Null
    /\ edits >= 1
    /\ Len(draftRules(saved)) >= 2
    /\ \E i, j \in 1..Len(draftRules(saved)) :
           /\ hasOwn(prop(draftRules(saved)[i], "style"), "bold")
           /\ ~hasOwn(prop(draftRules(saved)[j], "style"), "bold")
    /\ jsTruthy(prop(saved, "surfaces"))
    /\ Len(prop(saved, "surfaces").keys) >= 1

\* ---------------------------------------------------------------- end-to-end example
\* The number a value cell of row r shows in render, before number
\* formatting: a blank entry reads as 0 under blankAsZero.
shownValueRaw(r, colKey) == get2(valuesMap, r.code, colKey)
shownValue(r, colKey) ==
    LET hasMappedValue == has2(valuesMap, r.code, colKey)
        raw == IF hasMappedValue THEN get2(valuesMap, r.code, colKey) ELSE Null
        canBlankAsZero == blankAsZero /\ (autoAggregateParents \/ Len(r.children) = 0)
                          /\ hasMappedValue
    IN  IF isNullish(raw) THEN (IF canBlankAsZero THEN Num(0) ELSE Null) ELSE raw

\* Rows {US, EU}, columns {2023, 2024}, measure Sales; EU/2024 is not bound.
MaxExampleRecords == 3

ExampleRecords ==
    {Rec(<<"US">>, <<"2023">>, Null, <<Num(100)>>),
     Rec(<<"US">>, <<"2024">>, Null, <<Num(150)>>),
     Rec(<<"EU">>, <<"2023">>, Null, <<Num(80)>>)}

InitExample ==
    /\ InitBuild
    /\ FormatIdle
    /\ layoutRows = NoLayout.rows /\ formulas = NoLayout.formulas
    /\ blankAsZero \in BOOLEAN
    /\ autoAggregateParents = TRUE
    /\ showSubtotals = FALSE
    /\ showGrandTotal \in BOOLEAN

NextExample ==
    \/ \E rec \in ExampleRecords : AddRecord(rec, MaxExampleRecords)
    \/ BuildRows
    \/ FormulaPass
    \/ AutoAggregate
    \/ Subtotals
    \/ GrandTotal

SpecExample == InitExample /\ [][NextExample]_vars

SalesIn(period) == columnKey("values", "Sales", <<period>>)

\* The build is over, under the settings of the example, and each of the
\* three records was consumed exactly once.
ExampleBuilt ==
    /\ pc = "done"
    /\ blankAsZero /\ autoAggregateParents /\ showGrandTotal
    /\ recordCount = 3
    /\ \A rec \in ExampleRecords :
           LET k == <<rec.rowVals[1], SalesIn(rec.colVals[1])>> IN
           has(contributions, k) /\ contributions[k] = <<rec.vals[1]>>

ExampleBoundCells ==
    /\ get2(valuesMap, "US", SalesIn("2023")) = Num(100)
    /\ get2(valuesMap, "US", SalesIn("2024")) = Num(150)
    /\ get2(valuesMap, "EU", SalesIn("2023")) = Num(80)
    /\ get2(valuesMap, gtCode, SalesIn("2023")) = Num(180)
    /\ get2(valuesMap, gtCode, SalesIn("2024")) = Num(150)
    /\ flatRows[Len(flatRows)].code = gtCode
    /\ \A i \in 1..(Len(flatRows) - 1) : flatRows[i].code # gtCode

\* C21 as stated: the finalized model holds 100, 150, 80 and 0 in the four
\* cells, 180 and 150 in the grand-total row, and the grand-total row is last.
C21_ModelHoldsExampleCells ==
    ExampleBuilt =>
        /\ ExampleBoundCells
        /\ get2(valuesMap, "EU", SalesIn("2024")) = Num(0)

\* C21: after the end-to-end example the finalized model holds US/2023 = 100,
\* US/2024 = 150, EU/2023 = 80, GrandTotal/2023 = 180 and GrandTotal/2024 =
\* 150 with the grand-total row last; the unbound cell EU/2024 has a null
\* entry in the model and is shown as 0 by render.
C21_ExampleCellsShown ==
    ExampleBuilt =>
        /\ ExampleBoundCells
        /\ has2(valuesMap, "EU", SalesIn("2024"))
        /\ get2(valuesMap, "EU", SalesIn("2024")) = Null
        /\ \A i \in 1..Len(flatRows) : \A j \in 1..Len(columns) :
               shownValue(flatRows[i], columns[j].key) =
                   IF flatRows[i].code = "EU" /\ columns[j].key = SalesIn("2024")
                   THEN Num(0)
                   ELSE get2(valuesMap, flatRows[i].code, columns[j].key)

C21_Witness ==
    /\ ExampleBuilt
    /\ Len(flatRows) = 3
    /\ Len(columns) = 2

\* ---------------------------------------------------------------- gradients alone
\* Colour pairs of a gradient: rising and falling channels, channels one or
\* a few steps apart (where rounding shows), a short upper-case colour.
GradientColors ==
    {<<"#ffffff", "#000000">>, <<"#000000", "#ffffff">>, <<"#ff0000", "#0000ff">>,
     <<"#010203", "#020509">>, <<"#020509", "#010203">>, <<"#FFF", "#102030">>}

\* Bounds of a gradient: automatic, fixed, fixed on one side, fixed the wrong
\* way round, fixed on one number.
GradientBounds ==
    {<<Undefined, Undefined>>, <<Str("0"), Str("4")>>, <<Str("1"), Undefined>>,
     <<Undefined, Str("5")>>, <<Str("4"), Str("0")>>, <<Str("2"), Str("2")>>}

boundOf(value, color) ==
    IF value = Undefined THEN Bound("auto", Undefined, color) ELSE Bound("number", value, color)

GradientTexts ==
    {JSON_stringify(RawConfig(2, <<>>,
        Obj(<<"cell:background">>,
            <<Gradient(boundOf(b[1], c[1]), boundOf(b[2], c[2]), "blank")>>))) :
        b \in GradientBounds, c \in GradientColors}

\* Observed ranges of the measure, one of them a single value.
GradientRanges == {<<1, 5>>, <<1, 3>>, <<3, 3>>, <<1, 2>>}

GradientValues == 0..6

\* One column of cells holding every value, under one observed range.
GradientTable(range) ==
    {Target("cell", "R" \o natToString(v), "Row", "2023||values||Sales", "2023 Sales", "Sales",
            Num(v), Num(v), Undefined, "", Stats(range[1], range[2])) : v \in GradientValues}

InitGradient ==
    /\ InitBuild
    /\ layoutRows = NoLayout.rows /\ formulas = NoLayout.formulas
    /\ blankAsZero = TRUE
    /\ autoAggregateParents = TRUE
    /\ showSubtotals = FALSE
    /\ showGrandTotal = FALSE
    /\ layoutJson = "" /\ formulasJson = "" /\ customTableJson = ""
    /\ cfRulesJson \in GradientTexts
    /\ cfEnabled = TRUE
    /\ cfEditorDraft = Null
    /\ customTableEditorDraft = Null
    /\ HandshakeIdle
    /\ cfConfig = Null
    /\ painted = EmptyMap
    /\ saved = Undefined
    /\ edits = 0

NextGradient ==
    \E range \in GradientRanges : \E ids \in FreshIds(1) : Render(GradientTable(range), ids)

SpecGradient == InitGradient /\ [][NextGradient]_vars

\* ---------------------------------------------------------------- C22
cellGradient == getSurfaceSettings(cfConfig, "cell", "background")

\* The resolved bounds of the gradient for a painted cell.
minOf(t) == parseBound(prop(cellGradient, "min"), t.stats.min).n
maxOf(t) == parseBound(prop(cellGradient, "max"), t.stats.max).n

minRgb == hexToRgb(prop(prop(cellGradient, "min"), "color").s)
maxRgb == hexToRgb(prop(prop(cellGradient, "max"), "color").s)
paintedRgb(t) == hexToRgb(painted[t].el.background)

dist(a, b) == IF a < b THEN b - a ELSE a - b

towardMax(c1, c2) ==
    \A k \in 1..3 : /\ dist(c2[k], maxRgb[k]) <= dist(c1[k], maxRgb[k])
                    /\ dist(c2[k], minRgb[k]) >= dist(c1[k], minRgb[k])

outsideRange(t) ==
    \/ t.value.n < minOf(t) /\ t.value.n < maxOf(t)
    \/ t.value.n > minOf(t) /\ t.value.n > maxOf(t)

monotoneInRange ==
    \A t1 \in DOMAIN painted : \A t2 \in DOMAIN painted :
        minOf(t1) <= t1.value.n /\ t1.value.n < t2.value.n /\ t2.value.n <= maxOf(t1)
            => towardMax(paintedRgb(t1), paintedRgb(t2))

endsAndClamping(t) ==
    /\ t.value.n = minOf(t) => paintedRgb(t) = minRgb
    /\ t.value.n = maxOf(t) => paintedRgb(t) = maxRgb
    /\ outsideRange(t) =>
           paintedRgb(t) = IF dist(t.value.n, minOf(t)) < dist(t.value.n, maxOf(t))
                           THEN minRgb ELSE maxRgb

\* C22 as stated: the colour moves monotonically from min.color to max.color
\* inside the range, v = min gives min.color, v = max gives max.color, values
\* outside are clamped to the nearer end.
C22_GradientMonotoneWithEnds ==
    painted # EmptyMap =>
        /\ monotoneInRange
        /\ \A t \in DOMAIN painted : endsAndClamping(t)

\* C22: for a gradient without midpoint and with hex colours whose resolved
\* bounds differ, each RGB channel moves monotonically from min.color toward
\* max.color as the value grows inside [min, max], v = min gives min.color,
\* v = max gives max.color and values outside are clamped to the nearer end;
\* when the resolved bounds are equal every value gets max.color.
C22_GradientMonotoneUnlessDegenerate ==
    painted # EmptyMap =>
        /\ monotoneInRange
        /\ \A t \in DOMAIN painted :
               IF minOf(t) = maxOf(t) THEN paintedRgb(t) = maxRgb
               ELSE endsAndClamping(t)

\* Cells strictly between two bounds whose colours differ in every channel,
\* painted in colours of their own.
C22_Witness ==
    /\ painted # EmptyMap
    /\ \E t1 \in DOMAIN painted : \E t2 \in DOMAIN painted :
           /\ minOf(t1) < t1.value.n /\ t1.value.n < t2.value.n /\ t2.value.n < maxOf(t1)
           /\ \A k \in 1..3 : minRgb[k] # maxRgb[k]
           /\ paintedRgb(t1) # paintedRgb(t2)
           /\ paintedRgb(t1) \notin {minRgb, maxRgb}
    /\ \E t \in DOMAIN painted : outsideRange(t)

\* ---------------------------------------------------------------- VALUE lookups
\* Calc rows that read row X: in the current column, in the 2023 column of
\* measure Sales, and under the measure name spelled with its bucket.
LookupLayout ==
    [rows |-> <<Row("Cur", Undefined, Str("calc"), Str("VALUE(\"X\")")),
                Row("Y23", Undefined, Str("calc"), Str("VALUE(\"X\", \"Sales\", \"2023\")")),
                Row("B23", Undefined, Str("calc"),
                    Str("VALUE(\"X\", \"values||Sales\", \"2023\")"))>>,
     formulas |-> EmptyMap]

MaxLookupRecords == 2

LookupRecords ==
    {Rec(<<"X">>, <<c>>, Null, <<Num(v)>>) : c \in {"2023", "2024"}, v \in {1, 2}}

InitLookup ==
    /\ InitBuild
    /\ FormatIdle
    /\ layoutRows = LookupLayout.rows /\ formulas = LookupLayout.formulas
    /\ blankAsZero \in BOOLEAN
    /\ autoAggregateParents = TRUE
    /\ showSubtotals = FALSE
    /\ showGrandTotal = FALSE

NextLookup ==
    \/ \E rec \in LookupRecords : AddRecord(rec, MaxLookupRecords)
    \/ BuildRows
    \/ FormulaPass
    \/ AutoAggregate
    \/ Subtotals
    \/ GrandTotal

SpecLookup == InitLookup /\ [][NextLookup]_vars

\* ---------------------------------------------------------------- C23
FormulasDone == pc \in {"aggregate", "subtotals", "grandTotal", "done"}

\* The model columns of one period and one measure.
columnsOf(period, measure) ==
    {j \in 1..Len(columns) :
        columns[j].columnLevels = <<period>> /\ columns[j].measure = measure}

readsCurrentColumn(code, from) ==
    \A j \in 1..Len(columns) :
        get2(valuesMap, code, columns[j].key)
            = storedValue(getCell(valuesMap, from, columns[j].key))

readsColumnOf(code, from, period, measure) ==
    \A j \in 1..Len(columns) : \A i \in columnsOf(period, measure) :
        get2(valuesMap, code, columns[j].key)
            = storedValue(getCell(valuesMap, from, columns[i].key))

\* C23: VALUE(code) reads row `code` in the column being evaluated, and
\* VALUE(code, measure, period) reads row `code` in the model column of that
\* period and measure, whatever column is being evaluated.
C23_ValueReadsNamedColumn ==
    FormulasDone =>
        /\ readsCurrentColumn("Cur", "X")
        /\ readsColumnOf("Y23", "X", "2023", "Sales")

\* What the code does instead: the three-argument form finds the column only
\* when the measure is spelled with its bucket, and VALUE(code) reads the
\* current column.
C23_ValueReadsJoinedKey ==
    FormulasDone =>
        /\ readsCurrentColumn("Cur", "X")
        /\ readsColumnOf("B23", "X", "2023", "Sales")
        /\ \A j \in 1..Len(columns) :
               get2(valuesMap, "Y23", columns[j].key)
                   = storedValue(getCell(valuesMap, "X", "2023||Sales"))

\* ---------------------------------------------------------------- coercions
\* Formulas whose result is an infinity, NaN, a boolean, or rests on missing
\* rows, text operands and unknown functions.
CoercionFormulas ==
    {"1/0", "0/0", "-1/0", "[Nope]+1", "\"abc\"*2", "FOO(1)", "[X]/[Nope]", "[B]+1",
     "ABS(-1/0)", "SUM(\"X\", 1/0)", "IF(1/0, [X], 2)", "NOT 1/0"}

CoercionLayouts ==
    {<<Row("A", Undefined, Str("calc"), Str(fa)), Row("B", Undefined, Str("calc"), Str(fb))>> :
        fa \in CoercionFormulas, fb \in {"[A]+1", "1/0", "MIN(\"A\", 2)"}}

MaxCoercionRecords == 1

\* Row X holds 0 or 2; the calc row A also receives data.
CoercionRecords ==
    {Rec(<<"X">>, <<"2023">>, Null, <<Num(0)>>), Rec(<<"X">>, <<"2023">>, Null, <<Num(2)>>),
     Rec(<<"A">>, <<"2023">>, Null, <<Num(2)>>)}

InitCoercion ==
    /\ InitBuild
    /\ FormatIdle
    /\ layoutRows \in CoercionLayouts
    /\ formulas = EmptyMap
    /\ blankAsZero \in BOOLEAN
    /\ autoAggregateParents = TRUE
    /\ showSubtotals = FALSE
    /\ showGrandTotal = FALSE

NextCoercion ==
    \/ \E rec \in CoercionRecords : AddRecord(rec, MaxCoercionRecords)
    \/ BuildRows
    \/ FormulaPass
    \/ AutoAggregate
    \/ Subtotals
    \/ GrandTotal

SpecCoercion == InitCoercion /\ [][NextCoercion]_vars

\* ---------------------------------------------------------------- C24
nullOrFinite(v) == v = Null \/ v.t = "num"

\* The result of evaluating the formula of a calc row in one column of the
\* finished model.
resultOf(code, colKey) ==
    toNumber(evalAst(parse(rowByCode[code].formula.s), colKey, valuesMap, rowByCode))

\* C24: after the build every cell of every calc row is null or a finite
\* number, never NaN or an infinity; once the formula loop has settled, a
\* cell whose formula evaluates to something that is not a finite number
\* holds 0 under blankAsZero and null otherwise, and any other cell holds
\* the result.
C24_CalcCellsNullOrFinite ==
    FormulasDone =>
        /\ \A code \in DOMAIN rowByCode :
               rowByCode[code].type = "calc" =>
                   \A k \in DOMAIN valuesMap[code] : nullOrFinite(valuesMap[code][k])
        /\ ~changed =>
               \A i \in 1..Len(calcRows) : \A j \in 1..Len(columns) :
                   \A out \in {resultOf(calcRows[i], columns[j].key)} :
                       get2(valuesMap, calcRows[i], columns[j].key)
                           = IF out.t = "num" THEN out
                             ELSE IF blankAsZero THEN Num(0) ELSE Null

\* A finished build in which one calc cell evaluates to an infinity and
\* another to NaN.
C24_Witness ==
    /\ pc = "done" /\ ~changed
    /\ Len(columns) > 0
    /\ \E i \in 1..Len(calcRows) : resultOf(calcRows[i], columns[1].key).t = "inf"
    /\ \E i \in 1..Len(calcRows) : resultOf(calcRows[i], columns[1].key).t = "nan"

\* ---------------------------------------------------------------- subtotals alone
\* A calc row declared over the rows discovered under P.
CalcParentLayout ==
    [rows |-> <<Row("P", Undefined, Str("calc"), Str("1"))>>, formulas |-> EmptyMap]

SubtotalLayouts == {NoLayout, BlankLayout, DeepLayout, CalcParentLayout}

MaxSubtotalRecords == 2

\* Records with and without a group value.
SubtotalRecords ==
    {Rec(r, <<"2023">>, g, <<Num(1)>>) :
        r \in {<<"P", "a">>, <<"P", "b">>, <<"Q", "a">>}, g \in {Null, Str("G")}}

InitSubtotals ==
    /\ InitBuild
    /\ FormatIdle
    /\ \E l \in SubtotalLayouts : layoutRows = l.rows /\ formulas = l.formulas
    /\ blankAsZero = TRUE
    /\ autoAggregateParents = TRUE
    /\ showSubtotals \in BOOLEAN
    /\ showGrandTotal = FALSE

NextSubtotals ==
    \/ \E rec \in SubtotalRecords : AddRecord(rec, MaxSubtotalRecords)
    \/ BuildRows
    \/ FormulaPass
    \/ AutoAggregate
    \/ Subtotals
    \/ GrandTotal

SpecSubtotals == InitSubtotals /\ [][NextSubtotals]_vars

\* ---------------------------------------------------------------- C25
SubtotalsDone == pc \in {"grandTotal", "done"} /\ showSubtotals

\* The rows of the forest: the rows of the flattened list that are not totals.
ForestRowIdx == {i \in 1..Len(flatRows) : ~flatRows[i].isTotal}

subtotalRowsOf(r) ==
    Cardinality({i \in 1..Len(flatRows) :
                    flatRows[i].isTotal /\ flatRows[i].code = subtotalCode(r.code)})

isGroupRoot(r) == r.rowLevel = Num(0 - 1)

\* C25 as stated: with subtotals enabled every row that has a child, the
\* group root excepted, gets exactly one subtotal row whatever its type, and
\* the other rows get none.
C25_EveryParentGetsOneSubtotal ==
    SubtotalsDone =>
        \A i \in ForestRowIdx :
            subtotalRowsOf(flatRows[i])
                = IF Len(flatRows[i].children) > 0 /\ ~isGroupRoot(flatRows[i]) THEN 1 ELSE 0

\* C25: with subtotals enabled every row that has a child and whose type is
\* neither blank nor calc, the group root excepted, gets exactly one
\* subtotal row; rows without children, blank rows, calc rows and the group
\* root get none.
C25_EveryDataParentGetsOneSubtotal ==
    SubtotalsDone =>
        \A i \in ForestRowIdx :
            subtotalRowsOf(flatRows[i])
                = IF /\ Len(flatRows[i].children) > 0
                     /\ ~isGroupRoot(flatRows[i])
                     /\ flatRows[i].type \notin {"blank", "calc"}
                  THEN 1 ELSE 0

\* A group root over a parent that has its subtotal row.
C25_Witness ==
    /\ pc = "done" /\ showSubtotals
    /\ \E i \in ForestRowIdx :
           isGroupRoot(flatRows[i]) /\ Len(flatRows[i].children) > 0
    /\ \E i \in ForestRowIdx :
           /\ Len(flatRows[i].children) > 0 /\ flatRows[i].type = "data"
           /\ subtotalRowsOf(flatRows[i]) = 1

\* ---------------------------------------------------------------- reference chains
\* A chain of n calc rows A1 .. An over the data row X: Ai = [Ai+1] + 1 and
\* An = [X] + 1, declared with the dependencies first or last.
MaxChainLength == 7

MaxChainRecords == 1

ChainCode(i) == "A" \o natToString(i)

ChainFormula(i, n) == IF i = n THEN "[X]+1" ELSE "[" \o ChainCode(i + 1) \o "]+1"

ReferenceChain(n, dependenciesFirst) ==
    [k \in 1..n |->
        Row(ChainCode(IF dependenciesFirst THEN n + 1 - k ELSE k), Undefined, Str("calc"),
            Str(ChainFormula(IF dependenciesFirst THEN n + 1 - k ELSE k, n)))]

ChainRecords == {Rec(<<"X">>, <<"2023">>, Null, <<Num(v)>>) : v \in {1, 2}}

InitChain ==
    /\ InitBuild
    /\ FormatIdle
    /\ \E n \in 1..MaxChainLength : \E first \in BOOLEAN :
           layoutRows = ReferenceChain(n, first)
    /\ formulas = EmptyMap
    /\ blankAsZero \in BOOLEAN
    /\ autoAggregateParents = TRUE
    /\ showSubtotals = FALSE
    /\ showGrandTotal = FALSE

NextChain ==
    \/ \E rec \in ChainRecords : AddRecord(rec, MaxChainRecords)
    \/ BuildRows
    \/ FormulaPass
    \/ AutoAggregate
    \/ Subtotals
    \/ GrandTotal

SpecChain == InitChain /\ [][NextChain]_vars

\* ---------------------------------------------------------------- C26
\* The calc rows the formula of a calc row refers to.
calcRefs(code) == {ref \in RefsOf(AstOf(code)) : has(rowByCode, ref) /\ IsCalc(ref)}

largest(S) == CHOOSE m \in S : \A x \in S : x <= m

depthFrom(below) ==
    IF below = {} THEN 0 ELSE IF (0 - 1) \in below THEN 0 - 1 ELSE 1 + largest(below)

\* The length of the longest chain of calc rows below a calc row, -1 when
\* it is longer than fuel rows (a cycle).
RECURSIVE calcDepth(_, _)
calcDepth(code, fuel) ==
    IF fuel = 0 THEN 0 - 1
    ELSE depthFrom({calcDepth(ref, fuel - 1) : ref \in calcRefs(code)})

depthOf(code) == calcDepth(code, Len(calcRows))

Acyclic == \A i \in 1..Len(calcRows) : depthOf(calcRows[i]) >= 0

atDepth(d) == SelectSeq(calcRows, LAMBDA code : depthOf(code) = d)

\* The calc rows in dependency order: a row comes after the rows it reads.
RECURSIVE dependencyOrder(_)
dependencyOrder(d) ==
    IF d >= Len(calcRows) THEN <<>> ELSE atDepth(d) \o dependencyOrder(d + 1)

\* The cells after the formulas were evaluated once, in dependency order,
\* on the cells the formula loop started from.
inDependencyOrder ==
    evalPass([vm |-> preFormula, changed |-> FALSE], dependencyOrder(0), 1).vm

\* C26: for acyclic calc-row formulas the finalized value of every calc cell
\* is the one obtained by evaluating the formulas once in dependency order,
\* whatever the declaration order and the length of the chain; a calc row
\* that reads data rows only has that value after the first pass and keeps it.
C26_AcyclicFormulasSettle ==
    (pc \notin {"records"} /\ Acyclic) =>
        \A expected \in {inDependencyOrder} :
            \A i \in 1..Len(calcRows) : \A j \in 1..Len(columns) :
                (FormulasDone \/ (pass >= 1 /\ depthOf(calcRows[i]) = 0)) =>
                    get2(valuesMap, calcRows[i], columns[j].key)
                        = get2(expected, calcRows[i], columns[j].key)

\* The same for chains of at most MaxPasses calc rows.
C26_ShortChainsSettle ==
    (pc \notin {"records"} /\ Acyclic /\ Len(calcRows) <= MaxPasses) =>
        \A expected \in {inDependencyOrder} :
            \A i \in 1..Len(calcRows) : \A j \in 1..Len(columns) :
                (FormulasDone \/ (pass >= 1 /\ depthOf(calcRows[i]) = 0)) =>
                    get2(valuesMap, calcRows[i], columns[j].key)
                        = get2(expected, calcRows[i], columns[j].key)

\* ---------------------------------------------------------------- C27
positionsOf(code) == {i \in 1..Len(flatRows) : flatRows[i].code = code /\ ~flatRows[i].isTotal}

\* The row of a code is in the flattened list once, after its resolved
\* parent and one level below it, or at depth 0 when it has none.
flattenedOnce(code) ==
    /\ Cardinality(positionsOf(code)) = 1
    /\ \A i \in positionsOf(code) :
           IF resolvedParent(rowByCode, rowByCode[code])
           THEN \E p \in positionsOf(rowByCode[code].parent.s) :
                    p < i /\ flatRows[i].depth = flatRows[p].depth + 1
           ELSE flatRows[i].depth = 0

\* C27: every row node created by a build is in the flattened row list
\* exactly once, after its parent when it has a resolvable one, with the
\* parent's depth plus one (0 for roots).
C27_EveryRowFlattenedOnce ==
    ForestBuilt => \A code \in DOMAIN rowByCode : flattenedOnce(code)

\* The same for the rows whose parent links lead to a root.
C27_RowsUnderRootsFlattenedOnce ==
    ForestBuilt =>
        \A code \in DOMAIN rowByCode :
            IF ReachesRoot(code, Cardinality(DOMAIN rowByCode)) THEN flattenedOnce(code)
            ELSE positionsOf(code) = {}

\* ---------------------------------------------------------------- custom-table evaluator
\* The call case of evalAst in buildModelFromCustomTable: VALUE, IF and ABS,
\* and 0 for any other name.
evalCallCustomTable(name, args, colKey, vm) ==
    CASE name = "VALUE" ->
            LET code == asRowCode(argAt(args, 1))
                measure == IF Len(args) >= 2 THEN asRowCode(args[2]) ELSE ""
                period == IF Len(args) >= 3 THEN asRowCode(args[3]) ELSE ""
                key == IF period # "" /\ measure # "" THEN period \o "||" \o measure
                       ELSE IF measure # "" THEN measure
                       ELSE IF period # "" THEN period
                       ELSE colKey
            IN  getCell(vm, code, key)
      [] name = "IF" ->
            IF toBool(argAt(args, 1)) THEN toNumber(argAt(args, 2))
            ELSE toNumber(argAt(args, 3))
      [] name = "ABS" -> numAbs(toNumber(argAt(args, 1)))
      [] OTHER -> Num(0)

RECURSIVE evalAstCustomTable(_, _, _)
evalAstCustomTable(ast, colKey, vm) ==
    CASE ast.type = "num" -> ast.value
      [] ast.type = "str" -> Str(ast.value)
      [] ast.type = "ref" -> getCell(vm, ast.value, colKey)
      [] ast.type = "ident" ->
            LET upper == toUpperCase(ast.value) IN
            IF upper = "TRUE" THEN Bool(TRUE)
            ELSE IF upper = "FALSE" THEN Bool(FALSE)
            ELSE Num(0)
      [] ast.type = "un" ->
            LET v == evalAstCustomTable(ast.expr, colKey, vm) IN
            IF ast.op = "-" THEN numNeg(toNumber(v))
            ELSE IF ast.op \in {"NOT", "!"} THEN Bool(~toBool(v))
            ELSE toNumber(v)
      [] ast.type = "bin" ->
            evalBin(toUpperCase(ast.op), evalAstCustomTable(ast.left, colKey, vm),
                    evalAstCustomTable(ast.right, colKey, vm))
      [] ast.type = "call" ->
            evalCallCustomTable(toUpperCase(ast.name),
                                [i \in 1..Len(ast.args) |->
                                    evalAstCustomTable(ast.args[i], colKey, vm)],
                                colKey, vm)
      [] OTHER -> Num(0)

\* One cell, one row and one pass of the formula loop of
\* buildModelFromCustomTable, on [vm, changed].
evalCellCustomTable(st, code, ast, colKey) ==
    IF ast = NoAst THEN failedCell(st, code, colKey)
    ELSE LET prev == get2(st.vm, code, colKey)
             nextVal == storedValue(evalAstCustomTable(ast, colKey, st.vm))
         IN  IF (IF isNullish(prev) THEN Null ELSE prev) # nextVal
             THEN [vm |-> set2(st.vm, code, colKey, nextVal), changed |-> TRUE]
             ELSE st

RECURSIVE evalRowCustomTable(_, _, _, _)
evalRowCustomTable(st, code, ast, j) ==
    IF j > Len(columns) THEN st
    ELSE evalRowCustomTable(evalCellCustomTable(st, code, ast, columns[j].key),
                            code, ast, j + 1)

RECURSIVE evalPassCustomTable(_, _, _)
evalPassCustomTable(st, rows, i) ==
    IF i > Len(rows) THEN st
    ELSE evalPassCustomTable(
             evalRowCustomTable(st, rows[i], parse(rowByCode[rows[i]].formula.s), 1),
             rows, i + 1)

\* One pass of the fixpoint loop of buildModelFromCustomTable.
CustomTableFormulaPass ==
    /\ customTableEnabled
    /\ pc = "formulas"
    /\ \E st \in {evalPassCustomTable([vm |-> valuesMap, changed |-> FALSE], calcRows, 1)} :
           /\ valuesMap' = st.vm
           /\ changed' = st.changed
           /\ lastPassChanged' = (st.vm # valuesMap)
           /\ \E ends \in {loopEnds(pass + 1, st.changed)} :
                  /\ pc' = IF ends THEN "aggregate" ELSE "formulas"
                  /\ preAggregate' = IF ends THEN st.vm ELSE preAggregate
    /\ pass' = pass + 1
    /\ UNCHANGED <<configVars, ingestVars, rowVars, flatRows, preFormula>>

\* One formula per built-in, over the leaf P||a and the parent P.
BuiltinFormulas ==
    {"VALUE(\"P||a\")", "IF([P||a] > 1, 1, 2)", "ABS(0 - [P||a])", "ROUND([P||a])",
     "SUM(\"P||a\", 1)", "AVG(\"P||a\")", "MIN(\"P||a\", 9)", "MAX(\"P||a\", 1)",
     "COUNT(\"P||a\", 1)", "SUMCHILDREN(\"P\")", "AVGCHILDREN(\"P\")",
     "COUNTCHILDREN(\"P\")"}

MaxEvaluatorRecords == 2

EvaluatorRecords ==
    {Rec(<<"P", "a">>, <<"2023">>, Null, <<Num(2)>>),
     Rec(<<"P", "b">>, <<"2023">>, Null, <<Num(4)>>)}

\* The cell map and the rows are the ones the record loop and the row
\* construction produce; the formula loop is the one of the mode.
InitEvaluators ==
    /\ InitBuild
    /\ layoutJson = "" /\ formulasJson = "" /\ cfRulesJson = "" /\ customTableJson = ""
    /\ cfEnabled = FALSE
    /\ cfEditorDraft = Null
    /\ customTableEditorDraft = Null
    /\ cfConfig = Null
    /\ painted = EmptyMap
    /\ saved = Undefined
    /\ edits = 0
    /\ customTableEnabled \in BOOLEAN
    /\ pendingCustomTableJson = Null
    /\ pendingCustomTableSetAt = 0
    /\ now = 0
    /\ lastHandshake = NoHandshake
    /\ \E f \in BuiltinFormulas :
           layoutRows = <<Row("R", Undefined, Str("calc"), Str(f))>>
    /\ formulas = EmptyMap
    /\ blankAsZero \in BOOLEAN
    /\ autoAggregateParents = TRUE
    /\ showSubtotals = FALSE
    /\ showGrandTotal = FALSE

DefaultFormulaPass == ~customTableEnabled /\ FormulaPass

NextEvaluators ==
    \/ \E rec \in EvaluatorRecords : AddRecord(rec, MaxEvaluatorRecords)
    \/ BuildRows
    \/ DefaultFormulaPass
    \/ CustomTableFormulaPass

SpecEvaluators == InitEvaluators /\ [][NextEvaluators]_vars

\* ---------------------------------------------------------------- C28
evaluatorsAgreeOn(code) ==
    \A j \in 1..Len(columns) :
        evalAstCustomTable(AstOf(code), columns[j].key, valuesMap)
            = evalAst(AstOf(code), columns[j].key, valuesMap, rowByCode)

callsOf(code) ==
    {name \in {"VALUE", "IF", "ABS", "ROUND", "SUM", "AVG", "MIN", "MAX", "COUNT",
               "SUMCHILDREN", "AVGCHILDREN", "COUNTCHILDREN"} :
        AstOf(code).type = "call" /\ toUpperCase(AstOf(code).name) = name}

\* C28: on every cell map, the evaluator of custom-table mode gives every
\* formula the value the default-mode evaluator gives it, each built-in
\* included.
C28_EvaluatorsAgree ==
    FormulasDone \/ pc = "formulas" =>
        \A code \in DOMAIN rowByCode : IsCalc(code) => evaluatorsAgreeOn(code)

\* What the code does instead: the two evaluators agree on VALUE, IF and ABS.
C28_SharedBuiltinsAgree ==
    FormulasDone \/ pc = "formulas" =>
        \A code \in DOMAIN rowByCode :
            IsCalc(code) /\ callsOf(code) \subseteq {"VALUE", "IF", "ABS"} =>
                evaluatorsAgreeOn(code)

\* ---------------------------------------------------------------- custom-table handshake
\* The checkbox "Show value name in column headers" of the custom-table editor.
ToggleValueNames(checked) ==
    /\ customTableEditorDraft # Null
    /\ customTableEditorDraft' =
           putKey(customTableEditorDraft, "showValueNamesInColumns", Bool(checked))
    /\ UNCHANGED <<buildVars, handshakeVars, layoutJson, formulasJson, cfRulesJson,
                   customTableJson, cfEnabled, cfEditorDraft, cfConfig, painted, saved,
                   edits>>

\* The parents or children Apply keeps, for a draft without any: map and
\* filter of an empty list.
cleanedEntries(items) == IF Len(items) = 0 THEN <<>> ELSE Unmodelled

\* The text Apply persists for a draft.
applyJson(draft) ==
    JSON_stringify(
        Obj(<<"version", "parents", "children", "showValueNamesInColumns",
              "hiddenColumnFieldKeys">>,
            <<Num(1),
              Arr(cleanedEntries(arrayOrEmpty(prop(draft, "parents")))),
              Arr(cleanedEntries(arrayOrEmpty(prop(draft, "children")))),
              Bool(prop(draft, "showValueNamesInColumns") = Bool(TRUE)),
              Arr(ctHidden(arrayOrEmpty(prop(draft, "hiddenColumnFieldKeys")), 1, <<>>))>>))

\* Apply of the custom-table editor: the text is handed to the host, kept
\* locally and marked pending; the editor closes.
ApplyCustomTable ==
    /\ customTableEditorDraft # Null
    /\ \E json \in {applyJson(customTableEditorDraft)} :
           /\ customTableJson' = json
           /\ pendingCustomTableJson' = Str(json)
           /\ lastHandshake' = [step |-> "apply", tableJson |-> json]
    /\ pendingCustomTableSetAt' = now
    /\ customTableEditorDraft' = Null
    /\ UNCHANGED <<buildVars, customTableEnabled, now, layoutJson, formulasJson,
                   cfRulesJson, cfEnabled, cfEditorDraft, cfConfig, painted, saved, edits>>

\* ageMs < 10_000
keepsLocalInclusive(ageMs) == ageMs <= 10000
keepsLocal(ageMs) == ageMs < 10000

\* The branch update() takes on the tableJson of the data view.
handshakeStep(dvCtJson) ==
    IF truthy(pendingCustomTableJson)
    THEN IF dvCtJson = pendingCustomTableJson.s THEN "echoed"
         ELSE IF keepsLocal(now - pendingCustomTableSetAt) THEN "kept"
         ELSE "expired"
    ELSE IF trim(dvCtJson) # "" THEN "host"
    ELSE IF trim(customTableJson) = "" THEN "empty"
    ELSE "local"

\* update(): the custom-table text in effect after the data view's tableJson
\* has been read.
Update(dvCtJson) ==
    /\ \E step \in {handshakeStep(dvCtJson)} :
           /\ lastHandshake' = [step |-> step, tableJson |-> dvCtJson]
           /\ customTableJson' =
                  CASE step \in {"echoed", "expired", "host", "empty"} -> dvCtJson
                    [] step = "kept" -> pendingCustomTableJson.s
                    [] step = "local" -> customTableJson
           /\ pendingCustomTableJson' =
                  IF step \in {"echoed", "expired"} THEN Null ELSE pendingCustomTableJson
           /\ pendingCustomTableSetAt' =
                  IF step \in {"echoed", "expired"} THEN 0 ELSE pendingCustomTableSetAt
    /\ UNCHANGED <<buildVars, customTableEnabled, now, layoutJson, formulasJson,
                   cfRulesJson, cfEnabled, cfEditorDraft, customTableEditorDraft, cfConfig,
                   painted, saved, edits>>

\* Time passes.
ClockStep == 5000
MaxClock == 30000

Tick ==
    /\ now < MaxClock
    /\ now' = now + ClockStep
    /\ UNCHANGED <<buildVars, customTableEnabled, pendingCustomTableJson,
                   pendingCustomTableSetAt, lastHandshake, layoutJson, formulasJson,
                   cfRulesJson, customTableJson, cfEnabled, cfEditorDraft,
                   customTableEditorDraft, cfConfig, painted, saved, edits>>

\* A definition persisted before, by hand.
StaleTableJson == "{\"version\":1,\"parents\":[],\"children\":[]}"

AppliedTexts ==
    {applyJson(putKey(EmptyCustomTable, "showValueNamesInColumns", Bool(b))) : b \in BOOLEAN}

\* What the host may deliver: nothing, blanks, the definition it held before,
\* or a text the editor applied.
HostTexts == {"", " ", StaleTableJson} \cup AppliedTexts

InitHandshake ==
    /\ InitBuild
    /\ layoutRows = NoLayout.rows /\ formulas = NoLayout.formulas
    /\ blankAsZero = TRUE
    /\ autoAggregateParents = TRUE
    /\ showSubtotals = FALSE
    /\ showGrandTotal = FALSE
    /\ layoutJson = "" /\ formulasJson = "" /\ cfRulesJson = ""
    /\ customTableJson \in {"", StaleTableJson}
    /\ cfEnabled = FALSE
    /\ cfEditorDraft = Null
    /\ customTableEditorDraft = Null
    /\ cfConfig = Null
    /\ painted = EmptyMap
    /\ saved = Undefined
    /\ edits = 0
    /\ customTableEnabled = TRUE
    /\ pendingCustomTableJson = Null
    /\ pendingCustomTableSetAt = 0
    /\ now = 0
    /\ lastHandshake = NoHandshake

NextHandshake ==
    \/ \E ids \in FreshIds(2) : OpenCustomTableEditor(ids)
    \/ \E checked \in BOOLEAN : ToggleValueNames(checked)
    \/ ApplyCustomTable
    \/ \E dvCtJson \in HostTexts : Update(dvCtJson)
    \/ Tick

SpecHandshake == InitHandshake /\ [][NextHandshake]_vars

\* ---------------------------------------------------------------- C29
TenSeconds == 10000

Pending == pendingCustomTableJson # Null
PendingJson == pendingCustomTableJson.s

\* Between Apply and the end of the handshake the applied text is the one in
\* effect.
pendingInEffect == Pending => customTableJson = PendingJson

appliedIsPending ==
    ApplyCustomTable =>
        /\ pendingCustomTableJson' = Str(applyJson(customTableEditorDraft))
        /\ customTableJson' = applyJson(customTableEditorDraft)
        /\ pendingCustomTableSetAt' = now

updateWhilePending(dvCtJson) ==
    Pending /\ Update(dvCtJson) =>
        IF dvCtJson = PendingJson
        THEN customTableJson' = PendingJson /\ pendingCustomTableJson' = Null
        ELSE IF now - pendingCustomTableSetAt >= TenSeconds
        THEN customTableJson' = dvCtJson /\ pendingCustomTableJson' = Null
        ELSE /\ customTableJson' = PendingJson
             /\ UNCHANGED <<pendingCustomTableJson, pendingCustomTableSetAt>>

updateWhileIdle(dvCtJson) ==
    ~Pending /\ Update(dvCtJson) /\ trim(dvCtJson) = "" /\ trim(customTableJson) # "" =>
        UNCHANGED customTableJson

\* C29: the text J that Apply stores is pending and in effect; an update
\* whose tableJson equals J clears pending and keeps J; an update 10 seconds
\* or more after Apply clears pending and takes the host's tableJson; any
\* other update while J is pending keeps J, whatever tableJson it carries.
\* With nothing pending, an update with an empty tableJson keeps a non-empty
\* local text.
C29_PendingJsonSurvivesStaleUpdates ==
    /\ []pendingInEffect
    /\ [][/\ appliedIsPending
          /\ \A dvCtJson \in HostTexts :
                 updateWhilePending(dvCtJson) /\ updateWhileIdle(dvCtJson)]_vars

\* An update inside the window carried an empty tableJson and the applied
\* text is still pending and in effect.
C29_Witness ==
    /\ lastHandshake = [step |-> "kept", tableJson |-> ""]
    /\ Pending
    /\ customTableJson = PendingJson
    /\ now - pendingCustomTableSetAt = ClockStep

\* ---------------------------------------------------------------- malformed layouts
\* Layout texts that are JSON and hold, before the well-formed row T, an
\* entry of the wrong shape.
RaisingLayoutTexts ==
    {"[null,{\"code\":\"T\"}]",
     "{\"rows\":[{\"code\":\"T\"},null]}",
     "[{\"code\":5},{\"code\":\"T\"}]",
     "[{\"code\":\"A\",\"label\":5},{\"code\":\"T\"}]",
     "[{\"code\":\"A\",\"parent\":[\"T\"]},{\"code\":\"T\"}]",
     "[{\"code\":true},{\"code\":\"T\"}]"}

IgnoredLayoutTexts ==
    {"[5,\"x\",true,[1],{\"code\":\"T\"}]",
     "[{\"code\":0},{\"code\":\"T\"}]",
     "[{\"code\":null,\"label\":7},{\"code\":\"T\"}]",
     "[{\"code\":\"A\",\"label\":null,\"parent\":null},{\"code\":\"T\"}]",
     "[{\"code\":\"A\",\"label\":0,\"parent\":false},{\"code\":\"T\"}]",
     "[{\"code\":\"T\"}]"}

MalformedLayoutTexts == RaisingLayoutTexts \cup IgnoredLayoutTexts

MaxMalformedRecords == 1

MalformedRecords == {Rec(<<"T">>, <<"2023">>, Null, <<Num(1)>>)}

InitMalformed ==
    /\ pc = "settings"
    /\ EmptyModel
    /\ layoutRows = <<>> /\ formulas = EmptyMap
    /\ blankAsZero \in BOOLEAN
    /\ autoAggregateParents = TRUE
    /\ showSubtotals = FALSE
    /\ showGrandTotal \in BOOLEAN
    /\ layoutJson \in MalformedLayoutTexts
    /\ formulasJson = "" /\ cfRulesJson = "" /\ customTableJson = ""
    /\ cfEnabled = FALSE
    /\ cfEditorDraft = Null
    /\ customTableEditorDraft = Null
    /\ HandshakeIdle
    /\ cfConfig = Null
    /\ painted = EmptyMap
    /\ saved = Undefined
    /\ edits = 0

NextMalformed ==
    \/ ReadLayout
    \/ \E rec \in MalformedRecords : AddRecord(rec, MaxMalformedRecords)
    \/ BuildRows
    \/ FormulaPass
    \/ AutoAggregate
    \/ Subtotals
    \/ GrandTotal

SpecMalformed == InitMalformed /\ [][NextMalformed]_vars

\* ---------------------------------------------------------------- C30
RowsBuilt == pc \in {"formulas", "aggregate", "subtotals", "grandTotal", "done"}

\* C30: under a layout that is valid JSON with entries of the wrong shape,
\* the build does not raise, and the well-formed entry T of the layout has
\* its row.
C30_MalformedEntriesIgnored ==
    /\ pc # "raised"
    /\ RowsBuilt => has(rowByCode, "T") /\ rowByCode["T"].label = "T"

\* What the code does instead: an entry that is not an object, and a code,
\* label or parent that is falsy, are passed over; a null entry and a truthy
\* code, label or parent that is not a string end the build.
C30_OnlyFalsyOrScalarIgnored ==
    /\ pc = "raised" => layoutJson \in RaisingLayoutTexts
    /\ RowsBuilt =>
           /\ layoutJson \in IgnoredLayoutTexts
           /\ has(rowByCode, "T") /\ rowByCode["T"].label = "T"
           /\ DOMAIN rowByCode \subseteq {"T", "A"}

====
